---- MODULE Spec2Model ----
(***************************************************************************)
(* Biro3Client (src/unnamed/part_001): the session client of the VscBiro   *)
(* extension.  The model covers the request pipeline (get / postRaw), the  *)
(* authentication operations (login, fetchAccessToken,                     *)
(* refreshAccessToken), the re-authentication wrapper (withReauth) and the *)
(* per-entity caches with their get<Entity> / fetch<Entity> operations.    *)
(*                                                                         *)
(* The client runs on a single-threaded event loop.  Every action below is *)
(* the code one asynchronous task executes between two suspension points   *)
(* (an await on the network, on a response body or on a user prompt).      *)
(***************************************************************************)
EXTENDS Integers, Sequences, FiniteSets, TLC

\* ------------------------------------------------------------------------
\* Bounds of the model
\* ------------------------------------------------------------------------

\* number of withReauth calls one collaborator task makes
MaxCalls == 1

\* number of direct get<Entity> / fetch<Entity> calls one collaborator task
\* makes
MaxBareCalls == 2

\* number of commands (selectExercise, submit, tree refresh) one run of the
\* extension executes
MaxCommands == 2

\* number of times the exercise panel updates itself
MaxUpdates == 2

\* number of update() calls of the exercise panel that may overlap
MaxOverlap == 4

\* ------------------------------------------------------------------------
\* Values
\* ------------------------------------------------------------------------

Tasks == {"t1", "t2"}

\* JavaScript null / undefined of a string field
Null == "null"

AccessTokens == {"at1", "at2"}
RefreshTokens == {"rt1", "rt2"}

\* what the two input boxes can yield; "" is a dismissed box (?? '')
UsernameInputs == {"", "alice"}
PasswordInputs == {"pw"}

\* entity ids; JavaScript arrays are indexed from 0
Ids == {0, 1}

\* identities of response body objects; res.json() allocates a new object
\* for every response
Tags == {"a", "b", "c", "d", "e"}

\* the caches that are plain maps id -> value
MapKinds == {"assignments", "assignmentDetails", "exercises",
             "submissionStatuses", "reports", "submissionFiles"}

\* JavaScript truthiness of a string | null field
Truthy(s) == s # Null /\ s # ""

\* value objects -----------------------------------------------------------
Undefined == [type |-> "undefined"]
NoVal == [type |-> "none"]
Obj(tag) == [type |-> "obj", tag |-> tag]
Item(tag, id) == [type |-> "item", tag |-> tag, id |-> id]
\* an array of subject instances: ids lists the subjectInstanceId of its
\* elements in order, tag is the identity of the array object
Arr(tag, ids) == [type |-> "arr", tag |-> tag, ids |-> ids]

\* the lists of subject instances a server sends
IdLists == {<< >>, <<1>>, <<0, 1>>, <<1, 0>>}

\* an Exercise: its id and its submissions, each with a status and the ids
\* of its evaluations
Submission(id, status, evaluations) ==
    [submissionId |-> id, status |-> status, evaluations |-> evaluations]
Exercise(tag, id, submissions) ==
    [type |-> "obj", tag |-> tag, assignedExerciseId |-> id,
     submissions |-> submissions]

\* the submissions a server reports for an exercise
SubmissionLists ==
    {<< >>,
     <<Submission(0, "UNDER_EVALUATION", <<0>>), Submission(1, "EVALUATED", <<1>>)>>}

\* a SubmissionStatus
SubmissionStatus(tag, finished) ==
    [type |-> "obj", tag |-> tag, finished |-> finished]

\* what getAssignment yields: the assignment with its postDeadlineHandling
\* and the ids of its exerciseStatuses
AssignmentDetail(tag, handling, exercises) ==
    [type |-> "obj", tag |-> tag, postDeadlineHandling |-> handling,
     exerciseStatuses |-> exercises]
Handlings == {"LOCKED", "VIEW_ONLY"}

\* the children of a tree element
Children(items) == [type |-> "children", items |-> items]

\* a field of type number | null: << >> is null
NoId == << >>


\* operations a caller passes to the client --------------------------------
\* get<Entity>(id) / fetch<Entity>(id); the id of the two operations on the
\* whole list of subject instances is unused
MapOps == [fn : {"get", "fetch"}, kind : MapKinds, id : Ids]
SubjectOps == [fn : {"get"}, kind : {"subjectInstance"}, id : Ids]
                \cup [fn : {"get", "fetch"}, kind : {"subjectInstances"}, id : {0}]
Ops == MapOps \cup SubjectOps
NoOp == [fn |-> "none", kind |-> "none", id |-> 0]

\* errors -------------------------------------------------------------------
\* an ApiError carries the HTTP status; a transport error is no ApiError.
\* by: the request that failed; n: the invocation of the wrapped operation
\* during which it was thrown
ApiError(status, by, n) == [api |-> TRUE, status |-> status, by |-> by, n |-> n]
TransportError(by, n) == [api |-> FALSE, status |-> 0, by |-> by, n |-> n]
NoErr == [api |-> FALSE, status |-> 0, by |-> "none", n |-> 0]
\* what atob throws for a string that is no base64: no ApiError either
InvalidCharacterError(n) == [api |-> FALSE, status |-> 0, by |-> "atob", n |-> n]

\* results of a top-level call
Pending == [st |-> "pending", val |-> NoVal, err |-> NoErr]
Ok(v) == [st |-> "ok", val |-> v, err |-> NoErr]
Thrown(e) == [st |-> "err", val |-> NoVal, err |-> e]

\* HTTP ---------------------------------------------------------------------
LoginUrl == [ep |-> "auth/login/student", id |-> 0]
RefreshUrl == [ep |-> "auth/refresh-token", id |-> 0]
SubmitUrl(exerciseId) == [ep |-> "submissions", id |-> exerciseId]
NoReq == [method |-> "none"]
NoResp == [status |-> 0, cookies |-> << >>, body |-> NoVal]

\* the Set-Cookie headers of a response: name/value pairs in order
Cookie(name, value) == [name |-> name, value |-> value]
SetCookieLists == {<< >>, <<Cookie("session", "s")>>}
                    \cup {<<Cookie("refresh-token", v)>> : v \in RefreshTokens}

Statuses == {200, 401, 500}


\* ------------------------------------------------------------------------
\* Text, base64, UTF-8
\* ------------------------------------------------------------------------

\* a JavaScript string is the sequence of its character codes; a byte
\* string (what atob returns) has codes below 256. Printable lists the
\* characters of the codes 32 .. 126 (code 96, the grave accent, by name)
Printable ==
    <<" ", "!", "\"", "#", "$", "%", "&", "'", "(", ")", "*", "+",
      ",", "-", ".", "/", "0", "1", "2", "3", "4", "5", "6", "7",
      "8", "9", ":", ";", "<", "=", ">", "?", "@", "A", "B", "C",
      "D", "E", "F", "G", "H", "I", "J", "K", "L", "M", "N", "O",
      "P", "Q", "R", "S", "T", "U", "V", "W", "X", "Y", "Z", "[",
      "\\", "]", "^", "_", "grave", "a", "b", "c", "d", "e", "f", "g",
      "h", "i", "j", "k", "l", "m", "n", "o", "p", "q", "r", "s",
      "t", "u", "v", "w", "x", "y", "z", "{", "|", "}", "~">>
CodeOf ==
    [c \in {Printable[i] : i \in DOMAIN Printable} |->
        31 + CHOOSE i \in DOMAIN Printable : Printable[i] = c]
Code(c) == CodeOf[c]
Text(chars) == [i \in 1..Len(chars) |-> Code(chars[i])]

\* the base64 alphabet: the character of every 6-bit value, from 0
Base64Chars ==
    Text(<<"A", "B", "C", "D", "E", "F", "G", "H", "I", "J", "K", "L", "M",
           "N", "O", "P", "Q", "R", "S", "T", "U", "V", "W", "X", "Y", "Z",
           "a", "b", "c", "d", "e", "f", "g", "h", "i", "j", "k", "l", "m",
           "n", "o", "p", "q", "r", "s", "t", "u", "v", "w", "x", "y", "z",
           "0", "1", "2", "3", "4", "5", "6", "7", "8", "9", "+", "/">>)
Base64Alphabet == {Base64Chars[i] : i \in DOMAIN Base64Chars}
Base64IndexOf ==
    [c \in Base64Alphabet |-> (CHOOSE i \in DOMAIN Base64Chars : Base64Chars[i] = c) - 1]
Base64Index(c) == Base64IndexOf[c]
Pad == Code("=")
AsciiWhitespace == {9, 10, 12, 13, 32}

RECURSIVE Without(_, _)
Without(s, drop) ==
    IF s = << >> THEN << >>
    ELSE IF Head(s) \in drop THEN Without(Tail(s), drop)
    ELSE <<Head(s)>> \o Without(Tail(s), drop)

\* the bytes of the base64 characters s, four characters at a time; two or
\* three characters that are left over give one or two bytes
RECURSIVE Base64Bytes(_)
Base64Bytes(s) ==
    LET v(i) == Base64Index(s[i])
    IN IF Len(s) < 2 THEN << >>
       ELSE IF Len(s) = 2 THEN <<v(1) * 4 + v(2) \div 16>>
       ELSE IF Len(s) = 3
         THEN <<v(1) * 4 + v(2) \div 16, (v(2) % 16) * 16 + v(3) \div 4>>
       ELSE <<v(1) * 4 + v(2) \div 16,
              (v(2) % 16) * 16 + v(3) \div 4,
              (v(3) % 4) * 64 + v(4)>>
              \o Base64Bytes(SubSeq(s, 5, Len(s)))

Failure == [ok |-> FALSE, val |-> << >>]
Success(v) == [ok |-> TRUE, val |-> v]

\* atob(data), the forgiving-base64 decode of the platform: whitespace is
\* dropped, padding is dropped from a string of a multiple of four
\* characters, and a length of 1 modulo 4 or a character outside the
\* alphabet throws
atob(data) ==
    LET s1 == Without(data, AsciiWhitespace)
        n == Len(s1)
        s2 == IF n > 0 /\ n % 4 = 0
                THEN IF s1[n] = Pad /\ s1[n - 1] = Pad THEN SubSeq(s1, 1, n - 2)
                     ELSE IF s1[n] = Pad THEN SubSeq(s1, 1, n - 1)
                     ELSE s1
                ELSE s1
    IN IF Len(s2) % 4 = 1 THEN Failure
       ELSE IF \E i \in DOMAIN s2 : s2[i] \notin Base64Alphabet
         THEN Failure
       ELSE Success(Base64Bytes(s2))

\* what a server does to send bytes: base64 with padding
RECURSIVE base64(_)
base64(bytes) ==
    LET c(v) == Base64Chars[v + 1]
        b(i) == bytes[i]
    IN IF bytes = << >> THEN << >>
       ELSE IF Len(bytes) = 1
         THEN <<c(b(1) \div 4), c((b(1) % 4) * 16), Pad, Pad>>
       ELSE IF Len(bytes) = 2
         THEN <<c(b(1) \div 4), c((b(1) % 4) * 16 + b(2) \div 16),
                c((b(2) % 16) * 4), Pad>>
       ELSE <<c(b(1) \div 4), c((b(1) % 4) * 16 + b(2) \div 16),
              c((b(2) % 16) * 4 + b(3) \div 64), c(b(3) % 64)>>
              \o base64(SubSeq(bytes, 4, Len(bytes)))

\* U+FFFD, which a TextDecoder puts for bytes that are no UTF-8
Replacement == 65533

\* new TextDecoder().decode(bytes) for sequences of one and two bytes: a
\* byte that starts no such sequence gives U+FFFD. Lead bytes of longer
\* sequences (0xE0 and above) are not among the payloads explored
RECURSIVE utf8Decode(_)
utf8Decode(bytes) ==
    IF bytes = << >> THEN << >>
    ELSE LET b == Head(bytes)
         IN IF b < 128 THEN <<b>> \o utf8Decode(Tail(bytes))
            ELSE IF /\ b >= 194 /\ b <= 223 /\ Len(bytes) >= 2
                    /\ bytes[2] >= 128 /\ bytes[2] <= 191
              THEN <<(b - 192) * 64 + (bytes[2] - 128)>>
                     \o utf8Decode(SubSeq(bytes, 3, Len(bytes)))
            ELSE <<Replacement>> \o utf8Decode(Tail(bytes))

\* the UTF-8 bytes of a text of code points below 2048
RECURSIVE utf8Encode(_)
utf8Encode(text) ==
    IF text = << >> THEN << >>
    ELSE LET c == Head(text)
         IN (IF c < 128 THEN <<c>> ELSE <<192 + (c \div 64), 128 + (c % 64)>>)
              \o utf8Encode(Tail(text))

\* JSON ---------------------------------------------------------------------
\* the values JSON.parse yields. A number is kept as its literal; the
\* members of an object are in insertion order
JNull == [t |-> "null"]
JBool(b) == [t |-> "bool", b |-> b]
JNum(literal) == [t |-> "num", literal |-> literal]
JStr(chars) == [t |-> "str", chars |-> chars]
JArr(items) == [t |-> "arr", items |-> items]
JObj(members) == [t |-> "obj", members |-> members]
Member(key, val) == [key |-> key, val |-> val]

\* a parse step fails, or yields a value and the text that follows it
SyntaxError == [ok |-> FALSE, val |-> JNull, rest |-> << >>]
Parsed(v, rest) == [ok |-> TRUE, val |-> v, rest |-> rest]

JsonWhitespace == {9, 10, 13, 32}
Digits == {Code(d) : d \in {"0", "1", "2", "3", "4", "5", "6", "7", "8", "9"}}
HexDigits ==
    <<"0", "1", "2", "3", "4", "5", "6", "7", "8", "9", "a", "b", "c", "d",
      "e", "f">>

StartsWith(s, w) == Len(s) >= Len(w) /\ SubSeq(s, 1, Len(w)) = w
Drop(s, n) == SubSeq(s, n + 1, Len(s))

RECURSIVE skipWhitespace(_)
skipWhitespace(s) ==
    IF s # << >> /\ Head(s) \in JsonWhitespace THEN skipWhitespace(Tail(s))
    ELSE s

RECURSIVE digitsOf(_)
digitsOf(s) ==
    IF s # << >> /\ Head(s) \in Digits THEN <<Head(s)>> \o digitsOf(Tail(s))
    ELSE << >>

\* the value of a hexadecimal digit, in either case; 16 for another character
HexValueOf ==
    [c \in {Code(HexDigits[i]) : i \in DOMAIN HexDigits} |->
        (CHOOSE i \in DOMAIN HexDigits : Code(HexDigits[i]) = c) - 1]
HexValue(c) ==
    LET lower == IF c >= Code("A") /\ c <= Code("F") THEN c + 32 ELSE c
    IN IF lower \in DOMAIN HexValueOf THEN HexValueOf[lower] ELSE 16

\* the character an escape sequence \c stands for; 0 when there is none
Escaped(c) ==
    CASE c \in {Code("\""), Code("\\"), Code("/")} -> c
      [] c = Code("b") -> 8
      [] c = Code("f") -> 12
      [] c = Code("n") -> 10
      [] c = Code("r") -> 13
      [] c = Code("t") -> 9
      [] OTHER -> 0

\* a string after its opening quote: the characters up to the closing one
RECURSIVE stringChars(_, _)
stringChars(s, acc) ==
    IF s = << >> THEN SyntaxError
    ELSE IF Head(s) = Code("\"") THEN Parsed(JStr(acc), Tail(s))
    ELSE IF Head(s) < 32 THEN SyntaxError
    ELSE IF Head(s) # Code("\\") THEN stringChars(Tail(s), Append(acc, Head(s)))
    ELSE IF Len(s) < 2 THEN SyntaxError
    ELSE IF s[2] = Code("u")
      THEN IF Len(s) >= 6 /\ \A i \in 3..6 : HexValue(s[i]) < 16
             THEN stringChars(Drop(s, 6),
                              Append(acc, HexValue(s[3]) * 4096
                                            + HexValue(s[4]) * 256
                                            + HexValue(s[5]) * 16
                                            + HexValue(s[6])))
             ELSE SyntaxError
    ELSE IF Escaped(s[2]) # 0
      THEN stringChars(Drop(s, 2), Append(acc, Escaped(s[2])))
    ELSE SyntaxError

\* a number: -? (0 | [1-9][0-9]*) (. [0-9]+)? ([eE] [+-]? [0-9]+)?
\* each part takes the literal read so far and the text that follows it
Scanned(ok, literal, rest) == [ok |-> ok, literal |-> literal, rest |-> rest]

numberSign(s) ==
    IF s # << >> /\ Head(s) = Code("-") THEN Scanned(TRUE, <<Head(s)>>, Tail(s))
    ELSE Scanned(TRUE, << >>, s)

numberInt(p) ==
    LET d == IF p.rest # << >> /\ Head(p.rest) = Code("0") THEN <<Head(p.rest)>>
             ELSE digitsOf(p.rest)
    IN Scanned(d # << >>, p.literal \o d, Drop(p.rest, Len(d)))

numberFrac(p) ==
    IF p.rest # << >> /\ Head(p.rest) = Code(".")
      THEN LET d == digitsOf(Tail(p.rest))
           IN Scanned(p.ok /\ d # << >>, p.literal \o <<Head(p.rest)>> \o d,
                      Drop(p.rest, 1 + Len(d)))
      ELSE p

numberExp(p) ==
    IF p.rest # << >> /\ Head(p.rest) \in {Code("e"), Code("E")}
      THEN LET r == Tail(p.rest)
               sign == IF r # << >> /\ Head(r) \in {Code("+"), Code("-")}
                         THEN <<Head(r)>> ELSE << >>
               d == digitsOf(Drop(r, Len(sign)))
           IN Scanned(p.ok /\ d # << >>,
                      p.literal \o <<Head(p.rest)>> \o sign \o d,
                      Drop(r, Len(sign) + Len(d)))
      ELSE p

numberLiteral(s) ==
    LET p == numberExp(numberFrac(numberInt(numberSign(s))))
    IN IF p.ok THEN Parsed(JNum(p.literal), p.rest) ELSE SyntaxError

\* a member is added to an object: a key that is there keeps its place and
\* gets the new value
putMember(members, key, val) ==
    IF \E i \in DOMAIN members : members[i].key = key
      THEN [i \in DOMAIN members |->
               IF members[i].key = key THEN Member(key, val) ELSE members[i]]
      ELSE Append(members, Member(key, val))

RECURSIVE parseValue(_), parseElements(_, _), parseMembers(_, _)

\* the elements of an array after "[" or ","
parseElements(s, acc) ==
    LET e == parseValue(s)
        s1 == skipWhitespace(e.rest)
    IN IF ~e.ok \/ s1 = << >> THEN SyntaxError
       ELSE IF Head(s1) = Code(",")
         THEN parseElements(Tail(s1), Append(acc, e.val))
       ELSE IF Head(s1) = Code("]")
         THEN Parsed(JArr(Append(acc, e.val)), Tail(s1))
       ELSE SyntaxError

\* the members of an object after "{" or ","
parseMembers(s, acc) ==
    LET s1 == skipWhitespace(s)
        key == IF s1 # << >> /\ Head(s1) = Code("\"")
                 THEN stringChars(Tail(s1), << >>) ELSE SyntaxError
        s2 == skipWhitespace(key.rest)
        colon == key.ok /\ s2 # << >> /\ Head(s2) = Code(":")
        val == IF colon THEN parseValue(Tail(s2)) ELSE SyntaxError
        s3 == skipWhitespace(val.rest)
    IN IF ~val.ok \/ s3 = << >> THEN SyntaxError
       ELSE IF Head(s3) = Code(",")
         THEN parseMembers(Tail(s3), putMember(acc, key.val.chars, val.val))
       ELSE IF Head(s3) = Code("}")
         THEN Parsed(JObj(putMember(acc, key.val.chars, val.val)), Tail(s3))
       ELSE SyntaxError

TrueLiteral == Text(<<"t", "r", "u", "e">>)
FalseLiteral == Text(<<"f", "a", "l", "s", "e">>)
NullLiteral == Text(<<"n", "u", "l", "l">>)

\* a value, after any whitespace
parseValue(s0) ==
    LET s == skipWhitespace(s0)
    IN IF s = << >> THEN SyntaxError
       ELSE CASE Head(s) = Code("{") ->
                   LET s1 == skipWhitespace(Tail(s))
                   IN IF s1 # << >> /\ Head(s1) = Code("}")
                        THEN Parsed(JObj(<< >>), Tail(s1))
                        ELSE parseMembers(s1, << >>)
              [] Head(s) = Code("[") ->
                   LET s1 == skipWhitespace(Tail(s))
                   IN IF s1 # << >> /\ Head(s1) = Code("]")
                        THEN Parsed(JArr(<< >>), Tail(s1))
                        ELSE parseElements(s1, << >>)
              [] Head(s) = Code("\"") -> stringChars(Tail(s), << >>)
              [] StartsWith(s, TrueLiteral) ->
                   Parsed(JBool(TRUE), Drop(s, 4))
              [] StartsWith(s, FalseLiteral) ->
                   Parsed(JBool(FALSE), Drop(s, 5))
              [] StartsWith(s, NullLiteral) ->
                   Parsed(JNull, Drop(s, 4))
              [] Head(s) = Code("-") \/ Head(s) \in Digits -> numberLiteral(s)
              [] OTHER -> SyntaxError

\* JSON.parse(text): one value and nothing but whitespace after it; a
\* SyntaxError otherwise
JSONparse(text) ==
    LET r == parseValue(text)
    IN IF r.ok /\ skipWhitespace(r.rest) = << >> THEN Success(r.val)
       ELSE Failure

\* report and file lists -----------------------------------------------------
\* the caches whose values fetchReports and fetchSubmissionFiles decode
DecodedKinds == {"reports", "submissionFiles"}

\* an element of the list the reports and uploaded-files endpoints send: a
\* file name and a content, which arrives as a string of base64
FileItem(filename, content) == [filename |-> filename, content |-> content]
Files(tag, items) == [type |-> "obj", tag |-> tag, items |-> items]

\* utf8Decoder.decode(Uint8Array.from(atob(content), v => v.charCodeAt(0)))
decodeContent(content) ==
    LET bytes == atob(content)
    IN IF bytes.ok THEN Success(utf8Decode(bytes.val)) ELSE Failure

\* mutant: the decoded text is kept whatever it parses to
reportContentKeepsText(text) == JStr(text)

\* try { item.content = JSON.parse(content) } catch { item.content = content }
reportContent(text) ==
    LET d == JSONparse(text)
    IN IF d.ok THEN d.val ELSE JStr(text)

\* the body of the loop of fetchReports (asReport) and of
\* fetchSubmissionFiles for one item: the item with its content replaced,
\* or the exception of atob
decodeItem(item, asReport) ==
    LET c == decodeContent(item.content.chars)
    IN IF ~c.ok THEN Failure
       ELSE Success([item EXCEPT !.content = IF asReport THEN reportContent(c.val)
                                             ELSE JStr(c.val)])

\* for (const item of v) { ... }: the first exception leaves the loop
decodeItems(items, asReport) ==
    IF \E i \in DOMAIN items : ~decodeItem(items[i], asReport).ok THEN Failure
    ELSE Success([i \in DOMAIN items |-> decodeItem(items[i], asReport).val])

\* ------------------------------------------------------------------------
\* Pure helpers of the client
\* ------------------------------------------------------------------------

\* parseCookies: for each Set-Cookie header the text before the first '='
\* names the cookie; a later header of the same name replaces an earlier one
parseCookies(cookies) ==
    LET names == {cookies[i].name : i \in DOMAIN cookies}
        last(n) == CHOOSE i \in DOMAIN cookies :
                      /\ cookies[i].name = n
                      /\ \A j \in DOMAIN cookies : cookies[j].name = n => j <= i
    IN [n \in names |-> cookies[last(n)].value]

ObjectText == Text(<<"[", "o", "b", "j", "e", "c", "t", " ", "O", "b", "j", "e", "c", "t", "]">>)
MessageKey == Text(<<"m", "e", "s", "s", "a", "g", "e">>)
ApplicationJson == Text(<<"a", "p", "p", "l", "i", "c", "a", "t", "i", "o", "n", "/", "j", "s", "o", "n">>)
HttpPrefix == Text(<<"H", "T", "T", "P", " ">>)
ColonSpace == Text(<<":", " ">>)

\* the same on the text of the headers --------------------------------------
\* s.indexOf(c): the first position of c in s, from 0; -1 when there is none
indexOf(s, c) ==
    LET at == {i \in DOMAIN s : s[i] = c}
    IN IF at = {} THEN -1 ELSE (CHOOSE i \in at : \A j \in at : i <= j) - 1

\* s.split(c)[0]: the text before the first c, all of s when there is none
firstPart(s, c) ==
    IF indexOf(s, c) = -1 THEN s ELSE SubSeq(s, 1, indexOf(s, c))

\* s.substring(start)
substring(s, start) ==
    IF start >= Len(s) THEN << >> ELSE SubSeq(s, start + 1, Len(s))

\* setCookie.split('=')[0]
cookieName(setCookie) == firstPart(setCookie, Code("="))

\* mutant: the attributes of the cookie are not cut off
cookieValueWithAttributes(setCookie) ==
    substring(setCookie, Len(cookieName(setCookie)) + 1)

\* setCookie.substring(cookieName.length + 1).split(';')[0]
cookieValue(setCookie) ==
    firstPart(substring(setCookie, Len(cookieName(setCookie)) + 1), Code(";"))

\* parseCookies(response) on the texts response.headers.getSetCookie() yields
parseSetCookie(headers) ==
    parseCookies([i \in DOMAIN headers |->
                     Cookie(cookieName(headers[i]), cookieValue(headers[i]))])

RefreshTokenName == Text(<<"r", "e", "f", "r", "e", "s", "h", "-", "t", "o", "k", "e", "n">>)

\* parseCookies(res)['refresh-token'] ?? this.refreshToken
refreshTokenFrom(headers, old) ==
    IF RefreshTokenName \in DOMAIN parseSetCookie(headers)
      THEN parseSetCookie(headers)[RefreshTokenName]
      ELSE old

\* headers['Cookie'] = `refresh-token=${this.refreshToken}`, when
\* this.refreshToken is truthy; << >> is no header
cookieHeaderText(token) ==
    IF token # << >> THEN RefreshTokenName \o <<Code("=")>> \o token ELSE << >>

\* ApiError.fromResponse ------------------------------------------------------
\* the decimal digits of a number, as a template literal writes it
RECURSIVE decimal(_)
decimal(n) ==
    IF n < 10 THEN <<48 + n>> ELSE decimal(n \div 10) \o <<48 + (n % 10)>>

\* String(v) of a parsed JSON value; a number literal of the bodies
\* explored is an integer and is its own text
RECURSIVE String(_)
String(v) ==
    CASE v.t = "str" -> v.chars
      [] v.t = "num" -> v.literal
      [] v.t = "bool" -> IF v.b THEN TrueLiteral ELSE FalseLiteral
      [] v.t = "null" -> NullLiteral
      [] v.t = "obj" -> ObjectText
      [] OTHER ->
           IF v.items = << >> THEN << >>
           ELSE (IF Head(v.items).t = "null" THEN << >> ELSE String(Head(v.items)))
                  \o (IF Len(v.items) = 1 THEN << >>
                      ELSE <<Code(",")>> \o String(JArr(Tail(v.items))))

\* 'message' in d, for an object or an array d
hasMessage(d) ==
    /\ d.t = "obj"
    /\ \E i \in DOMAIN d.members : d.members[i].key = MessageKey

messageOf(d) ==
    d.members[CHOOSE i \in DOMAIN d.members : d.members[i].key = MessageKey].val

\* the try block of fromResponse: the message and the data it leaves, the
\* empty text standing for a message that is null (both are falsy).
\* response.json() throws on a body that is no JSON, and both readers throw
\* on a body that cannot be read; the catch block is empty
messageAndData(response, json) ==
    IF response.contentType = ApplicationJson
      THEN IF ~json.ok THEN [message |-> << >>, data |-> JNull]
           ELSE IF hasMessage(json.val)
             THEN [message |-> String(messageOf(json.val)), data |-> json.val]
           ELSE [message |-> << >>, data |-> json.val]
    ELSE IF response.unreadable THEN [message |-> << >>, data |-> JNull]
    ELSE [message |-> response.text, data |-> JStr(response.text)]

readBody(response) ==
    messageAndData(response,
                   IF response.unreadable THEN Failure ELSE JSONparse(response.text))

\* mutant: the colon is written whether or not anything follows it
errorMessageAlwaysColon(status, message, statusText) ==
    HttpPrefix \o decimal(status) \o ColonSpace
      \o (IF message # << >> THEN message ELSE statusText)

\* if (message) ... else if (response.statusText) ... else ...
errorMessage(status, message, statusText) ==
    IF message # << >> THEN HttpPrefix \o decimal(status) \o ColonSpace \o message
    ELSE IF statusText # << >>
      THEN HttpPrefix \o decimal(status) \o ColonSpace \o statusText
    ELSE HttpPrefix \o decimal(status)

\* the ApiError of a response whose body has been read
apiError(response, by, n, read) ==
    [api |-> TRUE, status |-> response.status, by |-> by, n |-> n,
     statusMessage |-> response.statusText,
     response |-> read.data,
     message |-> errorMessage(response.status, read.message, response.statusText)]

\* ApiError.fromResponse(response): the error of the request pipeline with
\* its statusMessage, response and message
fromResponse(response, by, n) == apiError(response, by, n, readBody(response))

\* submitFile: the body ----------------------------------------------------
\* JSON.stringify(text) of a string: in quotes, with the quote, the
\* backslash and the control characters escaped
RECURSIVE escapedChars(_)
escapedChars(text) ==
    IF text = << >> THEN << >>
    ELSE LET c == Head(text)
             e == CASE c = Code("\"") -> <<Code("\\"), c>>
                    [] c = Code("\\") -> <<c, c>>
                    [] c = 8 -> <<Code("\\"), Code("b")>>
                    [] c = 9 -> <<Code("\\"), Code("t")>>
                    [] c = 10 -> <<Code("\\"), Code("n")>>
                    [] c = 12 -> <<Code("\\"), Code("f")>>
                    [] c = 13 -> <<Code("\\"), Code("r")>>
                    [] c < 32 -> <<Code("\\"), Code("u"), Code("0"), Code("0"),
                                   Code(HexDigits[(c \div 16) + 1]),
                                   Code(HexDigits[(c % 16) + 1])>>
                    [] OTHER -> <<c>>
         IN e \o escapedChars(Tail(text))
JSONstringify(text) == <<Code("\"")>> \o escapedChars(text) \o <<Code("\"")>>

CRLF == <<13, 10>>
Boundary ==
    Text(<<"-", "-", "-", "-", "g", "e", "c", "k", "o", "f", "o", "r", "m", "b", "o", "u", "n", "d", "a", "r", "y", "2", "7", "3", "f", "f", "e", "3", "0", "5", "e", "9", "d", "1", "6", "e", "6", "2", "8", "9", "1", "9", "5", "c", "b", "1", "b", "1", "7", "2", "1", "6", "e">>)
Dashes == Text(<<"-", "-">>)
SubmissionNameLine == Text(<<"C", "o", "n", "t", "e", "n", "t", "-", "D", "i", "s", "p", "o", "s", "i", "t", "i", "o", "n", ":", " ", "f", "o", "r", "m", "-", "d", "a", "t", "a", ";", " ", "n", "a", "m", "e", "=", "\"", "s", "u", "b", "m", "i", "s", "s", "i", "o", "n", "N", "a", "m", "e", "\"">>)
ConfirmedLine ==
    Text(<<"C", "o", "n", "t", "e", "n", "t", "-", "D", "i", "s", "p", "o", "s", "i", "t", "i", "o", "n", ":", " ", "f", "o", "r", "m", "-", "d", "a", "t", "a", ";", " ", "n", "a", "m", "e", "=", "\"", "p", "o", "s", "t", "-", "d", "e", "a", "d", "l", "i", "n", "e", "-", "s", "u", "b", "m", "i", "s", "s", "i", "o", "n", "-", "c", "o", "n", "f", "i", "r", "m", "e", "d", "\"">>)
FalseLine == Text(<<"f", "a", "l", "s", "e">>)
FileLine == Text(<<"C", "o", "n", "t", "e", "n", "t", "-", "D", "i", "s", "p", "o", "s", "i", "t", "i", "o", "n", ":", " ", "f", "o", "r", "m", "-", "d", "a", "t", "a", ";", " ", "n", "a", "m", "e", "=", "\"", "f", "i", "l", "e", "\"", ";", " ", "f", "i", "l", "e", "n", "a", "m", "e", "=">>)
OctetStreamLine == Text(<<"C", "o", "n", "t", "e", "n", "t", "-", "T", "y", "p", "e", ":", " ", "a", "p", "p", "l", "i", "c", "a", "t", "i", "o", "n", "/", "o", "c", "t", "e", "t", "-", "s", "t", "r", "e", "a", "m">>)

\* builder.appendLine(line)
appendLine(value, line) == value \o line \o CRLF

\* the lines submitFile appends, in order
bodyLines(filename, filecontent) ==
    <<Dashes \o Boundary, SubmissionNameLine, << >>, << >>,
      Dashes \o Boundary, ConfirmedLine, << >>, FalseLine,
      Dashes \o Boundary, FileLine \o JSONstringify(filename), OctetStreamLine,
      << >>, filecontent, Dashes \o Boundary \o Dashes>>

RECURSIVE appendAll(_), appendAllLineFeed(_)

\* mutant: the lines end with a line feed alone
appendAllLineFeed(lines) ==
    IF lines = << >> THEN << >>
    ELSE Head(lines) \o <<10>> \o appendAllLineFeed(Tail(lines))

\* builder.value after the lines have been appended
appendAll(lines) ==
    IF lines = << >> THEN << >>
    ELSE appendLine(<< >>, Head(lines)) \o appendAll(Tail(lines))

multipartBody(filename, filecontent) == appendAll(bodyLines(filename, filecontent))

\* mutant: the fallback to the stored token is missing
refreshTokenAfterNoFallback(cookies, old) ==
    LET parsed == parseCookies(cookies)
    IN IF "refresh-token" \in DOMAIN parsed THEN parsed["refresh-token"] ELSE Null

\* parseCookies(res)['refresh-token'] ?? this.refreshToken
refreshTokenAfter(cookies, old) ==
    LET parsed == parseCookies(cookies)
    IN IF "refresh-token" \in DOMAIN parsed THEN parsed["refresh-token"] ELSE old

\* listToRecord(v, v => v.subjectInstanceId)
listToRecord(arr) ==
    LET keys == {arr.ids[i] : i \in DOMAIN arr.ids}
    IN [type |-> "record",
        items |-> [id \in keys |-> Item(arr.tag, id)]]
NullRecord == [type |-> "null"]

\* ascending sequence of a finite set of numbers (the order in which
\* Object.values enumerates integer keys)
RECURSIVE Ascending(_)
Ascending(S) ==
    IF S = {} THEN << >>
    ELSE LET m == CHOOSE x \in S : \A y \in S : x <= y
         IN <<m>> \o Ascending(S \ {m})

\* Object.values(record): a newly allocated array
ObjectValues(rec) ==
    [type |-> "values", items |-> [i \in DOMAIN Ascending(DOMAIN rec.items) |->
                                     rec.items[Ascending(DOMAIN rec.items)[i]]]]

\* v[i] of a JavaScript array of subject instances (indices start at 0)
ArrayAt(arr, i) ==
    IF i + 1 \in DOMAIN arr.ids THEN Item(arr.tag, arr.ids[i + 1]) ELSE Undefined

\* the request headers that depend on the session: Authorization and Cookie
\* are added only for a truthy token
AuthorizationHeader(accessToken_) ==
    IF Truthy(accessToken_) THEN <<"Bearer", accessToken_>> ELSE << >>
CookieHeader(refreshToken_) ==
    IF Truthy(refreshToken_) THEN <<"refresh-token", refreshToken_>> ELSE << >>

\* the endpoint of an entity fetch
UrlOf(o) ==
    CASE o.kind \in {"subjectInstance", "subjectInstances"} ->
             [ep |-> "students/subject-instances", id |-> 0]
      [] OTHER -> [ep |-> o.kind, id |-> o.id]


\* ------------------------------------------------------------------------
\* State
\* ------------------------------------------------------------------------

VARIABLES
    username,           \* Biro3Client.username
    password,           \* Biro3Client.password
    accessToken,        \* Biro3Client.accessToken
    refreshToken,       \* Biro3Client.refreshToken
    subjectInstances,   \* Biro3Client.subjectInstances (record or null)
    cache,              \* the six maps id -> value, by name
    task,               \* the asynchronous tasks running client code
    panel,              \* the ExercisePanel
    selected,           \* selectedExerciseId of the extension
    allowSubmission,    \* the context key 'vscbiro.allowSubmission'
    flight,             \* the server's responses that are on their way
    lastGet,            \* history: the last get that completed, and its value
    calls,              \* history: top-level calls each task made so far
    issued              \* history: the refresh token the server issued last

vars == <<username, password, accessToken, refreshToken, subjectInstances,
          cache, task, panel, selected, allowSubmission, flight, lastGet,
          calls, issued>>

\* the locals of one task: where it is suspended (pc), the request it awaits
\* (ctx, req), the frame of withReauth (op, wrapped, retries), the arguments
\* of fetchAccessToken (sent), what the pipeline handed back (resp, threw),
\* the outcome of the call (result) and its history: the events of the call
\* (log), whether credentials and an access token were held when the
\* operation was first called (given), the value a preceding get of the
\* same entity returned (expect) and what the cache held for the entity when
\* the operation was called (before) and the position of the call among
\* all top-level calls (seq), the collaborator that made the call (cmd) and
\* the exercise the submit command holds (exercise)
IdleTask ==
    [pc |-> "idle", ctx |-> "none", op |-> NoOp, wrapped |-> FALSE,
     retries |-> 0, sent |-> [username |-> Null, password |-> Null],
     req |-> NoReq, resp |-> NoResp, threw |-> NoErr, result |-> Pending,
     log |-> << >>, given |-> FALSE, expect |-> NoVal, before |-> NoVal,
     seq |-> 0, cmd |-> "none", exercise |-> NoVal]

\* a top-level call of task t starts with fresh locals
NewCall(t, o, wrapped_) ==
    [IdleTask EXCEPT !.op = o, !.wrapped = wrapped_,
                     !.seq = 1 + calls["t1"] + calls["t2"]]

NoGet == [op |-> NoOp, val |-> NoVal]

\* the client and one task as a value; the operations below map such a value
\* to the one the code leaves behind at its next suspension point
Snapshot(t) ==
    [username |-> username, password |-> password,
     accessToken |-> accessToken, refreshToken |-> refreshToken,
     subjectInstances |-> subjectInstances, cache |-> cache,
     panel |-> panel, selected |-> selected,
     allowSubmission |-> allowSubmission,
     lastGet |-> lastGet, k |-> task[t]]

Commit(t, s) ==
    /\ username' = s.username
    /\ password' = s.password
    /\ accessToken' = s.accessToken
    /\ refreshToken' = s.refreshToken
    /\ subjectInstances' = s.subjectInstances
    /\ cache' = s.cache
    /\ panel' = s.panel
    /\ selected' = s.selected
    /\ allowSubmission' = s.allowSubmission
    /\ lastGet' = s.lastGet
    /\ task' = [task EXCEPT ![t] = s.k]

\* history helpers
Logged(s, ev) == [s EXCEPT !.k.log = Append(@, ev)]
Count(log, ev) == Cardinality({i \in DOMAIN log : log[i] = ev})
OpCalls(log) == Count(log, <<"op", "call">>)

\* ------------------------------------------------------------------------
\* Request pipeline
\* ------------------------------------------------------------------------

\* mutant: the refresh token is not sent with a GET
getWithoutCookie(s, url) ==
    [s EXCEPT !.k.pc = "wait",
              !.k.log = Append(@, <<"op", "request">>),
              !.k.req = [method |-> "GET", url |-> url, body |-> NoVal,
                         Authorization |-> AuthorizationHeader(s.accessToken),
                         Cookie |-> << >>]]

\* get(url) up to its await of fetch()
get(s, url) ==
    [s EXCEPT !.k.pc = "wait",
              !.k.log = Append(@, <<"op", "request">>),
              !.k.req = [method |-> "GET", url |-> url, body |-> NoVal,
                         Authorization |-> AuthorizationHeader(s.accessToken),
                         Cookie |-> CookieHeader(s.refreshToken)]]

\* postRaw(url, body, headers) up to its await of fetch()
postRaw(s, url, body) ==
    [s EXCEPT !.k.pc = "wait",
              !.k.req = [method |-> "POST", url |-> url, body |-> body,
                         Authorization |-> AuthorizationHeader(s.accessToken),
                         Cookie |-> CookieHeader(s.refreshToken)]]

\* Response.ok
ResponseOk(r) == r.status >= 200 /\ r.status <= 299

\* get / postRaw once fetch() has settled: a rejected fetch (status 0 here)
\* and a non-2xx response throw, a 2xx response updates the refresh token
onResponse(s, r) ==
    LET n == OpCalls(s.k.log)
        s1 == [s EXCEPT !.k.pc = "resumed", !.k.req = NoReq, !.k.resp = r]
    IN IF r.status = 0
         THEN [s1 EXCEPT !.k.threw = TransportError(s.k.ctx, n)]
       ELSE IF ~ResponseOk(r)
         THEN [s1 EXCEPT !.k.threw = ApiError(r.status, s.k.ctx, n)]
       ELSE [s1 EXCEPT !.refreshToken = refreshTokenAfter(r.cookies, @),
                       !.k.threw = NoErr]

\* ------------------------------------------------------------------------
\* Authentication
\* ------------------------------------------------------------------------

\* the recovery steps are logged; the interactive login, which may repeat
\* without bound, is not
LoggedCtx(s, what) ==
    IF s.k.ctx = "login" THEN s ELSE Logged(s, <<s.k.ctx, what>>)

\* mutant: the credentials are stored before the request is sent
fetchAccessTokenStoresFirst(s, u, p, ctx) ==
    LET s1 == [s EXCEPT !.refreshToken = Null, !.accessToken = Null,
                        !.username = u, !.password = p,
                        !.k.ctx = ctx,
                        !.k.sent = [username |-> u, password |-> p]]
    IN postRaw(LoggedCtx(s1, "call"), LoginUrl, [username |-> u, password |-> p])

\* mutant: the tokens are not cleared before the request
fetchAccessTokenKeepsTokens(s, u, p, ctx) ==
    LET s1 == [s EXCEPT !.k.ctx = ctx,
                        !.k.sent = [username |-> u, password |-> p]]
    IN postRaw(LoggedCtx(s1, "call"), LoginUrl, [username |-> u, password |-> p])

\* fetchAccessToken(username, password) up to the await of post()
fetchAccessToken(s, u, p, ctx) ==
    LET s1 == [s EXCEPT !.refreshToken = Null, !.accessToken = Null,
                        !.k.ctx = ctx,
                        !.k.sent = [username |-> u, password |-> p]]
    IN postRaw(LoggedCtx(s1, "call"), LoginUrl, [username |-> u, password |-> p])

\* mutant: the refresh token is cleared as well
refreshAccessTokenDropsCookie(s) ==
    LET s1 == [s EXCEPT !.accessToken = Null, !.refreshToken = Null,
                        !.k.ctx = "refresh"]
    IN postRaw(LoggedCtx(s1, "call"), RefreshUrl, [withCredentials |-> TRUE])

\* refreshAccessToken() up to the await of post()
refreshAccessToken(s) ==
    LET s1 == [s EXCEPT !.accessToken = Null, !.k.ctx = "refresh"]
    IN postRaw(LoggedCtx(s1, "call"), RefreshUrl, [withCredentials |-> TRUE])

\* login() up to the await of the input boxes
login(s) == [s EXCEPT !.k.pc = "prompt", !.k.ctx = "login"]


\* ------------------------------------------------------------------------
\* Entity caches: get<Entity> / fetch<Entity>
\* ------------------------------------------------------------------------

\* two operations read and write the same cache entry
SameSlot(o1, o2) ==
    \/ /\ o1.kind \in {"subjectInstance", "subjectInstances"}
       /\ o2.kind \in {"subjectInstance", "subjectInstances"}
    \/ /\ o1.kind = o2.kind
       /\ o1.id = o2.id

\* delete this.client.<map>[id]
deleteEntry(s, kind, id) ==
    [s EXCEPT !.cache[kind][id] = Undefined,
              !.lastGet = IF @.op.kind = kind /\ @.op.id = id THEN NoGet ELSE @]

\* ------------------------------------------------------------------------
\* Collaborators: the exercise panel and the submit command
\* ------------------------------------------------------------------------

\* the panel: whether it exists (open), the exercise it shows (exerciseId),
\* where its update stands (pc), the locals of update() that its callbacks
\* capture (exercise; later: shouldRefreshLater; todo: the calls of the
\* update that have not been made yet), the updates made so far, whether
\* the timer callback ended in a TypeError (timerError), the content of
\* its webview (html), and its lock: the promise in this.lock (lock; promise
\* 0 is the Promise.resolve() of the constructor, promise n the one the
\* n-th update past the lock has created), the promises that are resolved
\* (settled) and the update() calls that went through the lock (runs)
NoHtml == [t |-> "none"]
NoPanel ==
    [open |-> FALSE, exerciseId |-> NoId, pc |-> "idle", exercise |-> NoVal,
     later |-> FALSE, todo |-> << >>, updates |-> 0, timerError |-> FALSE,
     html |-> NoHtml, lock |-> 0, settled |-> {0}, runs |-> << >>]

\* the content update(true) shows while it fetches
Loading == [t |-> "loading"]

\* the evaluations and the submissions of an exercise
EvaluationsOf(exercise) ==
    UNION {{exercise.submissions[i].evaluations[j] :
               j \in DOMAIN exercise.submissions[i].evaluations} :
             i \in DOMAIN exercise.submissions}
SubmissionsOf(exercise) ==
    {exercise.submissions[i].submissionId : i \in DOMAIN exercise.submissions}

\* the page refreshHtml builds from an exercise and the maps of the client:
\* for every evaluation the cached reports, for every submission the cached
\* files, 'no reports' and 'no files' (Undefined) where nothing is cached
Page(exercise, maps) ==
    [t |-> "page", exercise |-> exercise.assignedExerciseId,
     reports |-> [e \in EvaluationsOf(exercise) |-> maps["reports"][e]],
     files |-> [id \in SubmissionsOf(exercise) |-> maps["submissionFiles"][id]]]

\* ExercisePanel.refreshHtml(exercise)
refreshHtml(s, exercise) ==
    [s EXCEPT !.panel.html = Page(exercise, s.cache)]

\* the tasks on which the panel and the commands run their calls
PanelRunner == "t1"
CommandRunner == "t2"

\* getReports for every evaluation of a submission
RECURSIVE ReportCalls(_)
ReportCalls(evaluations) ==
    IF evaluations = << >> THEN << >>
    ELSE <<[fn |-> "get", kind |-> "reports", id |-> Head(evaluations)]>>
           \o ReportCalls(Tail(evaluations))

\* the calls update() wraps for the submissions of the exercise, in the
\* order in which it pushes them
RECURSIVE PanelCalls(_)
PanelCalls(submissions) ==
    IF submissions = << >> THEN << >>
    ELSE LET sub == Head(submissions)
         IN <<[fn |-> "get", kind |-> "submissionStatuses", id |-> sub.submissionId],
              [fn |-> "get", kind |-> "submissionFiles", id |-> sub.submissionId]>>
              \o ReportCalls(sub.evaluations)
              \o PanelCalls(Tail(submissions))

UnderEvaluation(submissions) ==
    \E i \in DOMAIN submissions : submissions[i].status = "UNDER_EVALUATION"

\* update() once withReauth(getExercise) has settled: the calls for the
\* submissions are queued and the page is built, or the error is logged
updateGotExercise(s, res) ==
    IF res.st = "ok"
      THEN refreshHtml([s EXCEPT !.panel.pc = "tasks",
                                 !.panel.exercise = res.val,
                                 !.panel.later = UnderEvaluation(res.val.submissions),
                                 !.panel.todo = PanelCalls(res.val.submissions)],
                       res.val)
      ELSE [s EXCEPT !.panel.pc = "idle"]

\* one of the wrapped calls of update() has settled
updateCallSettled(s, res) ==
    IF s.k.op.kind = "submissionStatuses" /\ res.st = "ok" /\ ~res.val.finished
      THEN [s EXCEPT !.panel.later = TRUE]
      ELSE s

\* Promise.allSettled(tasks).then(...) as the ExercisePanel.update of
\* src/extension.ts has it: the page is built again whenever the panel
\* still shows the exercise
panelSettledAlwaysRefreshes(s) ==
    IF s.panel.exerciseId = <<s.panel.exercise.assignedExerciseId>>
      THEN refreshHtml([s EXCEPT !.panel.pc = IF s.panel.later THEN "timer"
                                              ELSE "idle"],
                       s.panel.exercise)
      ELSE [s EXCEPT !.panel.pc = "idle"]

\* Promise.allSettled(tasks).then(...): the timer is set and the page is
\* built again
panelSettled(s) ==
    IF s.panel.later /\ s.panel.exerciseId = <<s.panel.exercise.assignedExerciseId>>
      THEN refreshHtml([s EXCEPT !.panel.pc = "timer"], s.panel.exercise)
      ELSE [s EXCEPT !.panel.pc = "idle"]

\* the loop of the timer callback from submission i on; reading .finished of
\* a status that is not cached throws a TypeError, which ends the callback
RECURSIVE refreshLoop(_, _, _)
refreshLoop(s, exercise, i) ==
    IF i > Len(exercise.submissions) THEN s
    ELSE LET sub == exercise.submissions[i]
             st == s.cache["submissionStatuses"][sub.submissionId]
             evals == {sub.evaluations[j] : j \in DOMAIN sub.evaluations}
         IN IF st = Undefined THEN [s EXCEPT !.panel.timerError = TRUE]
            ELSE LET s1 == IF ~st.finished
                             THEN [deleteEntry(s, "submissionStatuses", sub.submissionId)
                                     EXCEPT !.cache["reports"] =
                                       [e \in Ids |-> IF e \in evals THEN Undefined
                                                       ELSE @[e]]]
                             ELSE s
                     s2 == IF sub.status = "UNDER_EVALUATION"
                             THEN deleteEntry(s1, "exercises", exercise.assignedExerciseId)
                             ELSE s1
                 IN refreshLoop(s2, exercise, i + 1)


\* ExercisePanel.reveal(exerciseId), called on a panel that may not exist
reveal(s, id) ==
    IF s.panel.open /\ s.panel.exerciseId # <<id>>
      THEN [s EXCEPT !.panel.exerciseId = <<id>>]
      ELSE s

\* mutant: a locked assignment lists its exercises
assignmentChildrenIgnoresLock(assignment) ==
    Children(assignment.exerciseStatuses)

\* BiroExplorerProvider.getChildren for the element of an assignment, once
\* withReauth(getAssignment) has returned
assignmentChildren(assignment) ==
    IF assignment.postDeadlineHandling = "LOCKED" THEN Children(<< >>)
    ELSE Children(assignment.exerciseStatuses)

\* getChildren once withReauth(getAssignment) has settled: it returns the
\* children or throws what withReauth threw
expanded(s, res) ==
    IF res.st = "ok"
      THEN [s EXCEPT !.k.result = Ok(assignmentChildren(res.val)),
                     !.k.exercise = res.val]
      ELSE s

\* ExercisePanel.dispose() with the onDispose of the extension: the panel
\* is marked disposed, no exercise is selected and the context key is set
\* to selectedExerciseId !== null; exerciseId stays
dispose(s) ==
    [s EXCEPT !.panel.open = FALSE, !.selected = NoId,
              !.allowSubmission = FALSE]

\* the submit command once getExercise has returned: it may ask the user to
\* confirm the upload
submitGotExercise(s, exercise) ==
    [s EXCEPT !.k.pc = "confirm", !.k.ctx = "confirm", !.k.exercise = exercise]

\* the call of a task settles with res
settle(s, res) ==
    [s EXCEPT !.k.pc = "idle", !.k.ctx = "none", !.k.req = NoReq,
              !.k.resp = NoResp, !.k.threw = NoErr,
              !.k.sent = [username |-> Null, password |-> Null],
              !.k.result = res]

\* the selectExercise command once withReauth(getExercise) has settled: the
\* context key is set, or the error is logged
selectGotExercise(s, res) ==
    IF res.st = "ok" THEN [s EXCEPT !.allowSubmission = (s.selected # NoId)]
    ELSE s

\* the top-level call ends: its promise settles with res and the
\* collaborator that awaits it goes on
finish(s, res) ==
    CASE s.k.cmd = "submit" /\ s.k.ctx = "op" /\ res.st = "ok" ->
             submitGotExercise(s, res.val)
      [] s.k.cmd = "select" -> selectGotExercise(settle(s, res), res)
      [] s.k.cmd = "update" -> updateGotExercise(settle(s, res), res)
      [] s.k.cmd = "task" -> updateCallSettled(settle(s, res), res)
      [] s.k.cmd = "expand" -> expanded(settle(s, res), res)
      [] OTHER -> settle(s, res)

\* the called operation resolves with v, and so does withReauth
\* (return await fetch())
returned(s, v) ==
    LET s1 == Logged(s, <<"op", "ok">>)
        s2 == IF s.k.op.fn = "get"
                THEN [s1 EXCEPT !.lastGet = [op |-> s.k.op, val |-> v]]
                ELSE s1
    IN finish(s2, Ok(v))

\* getAssignments / getAssignment / getExercise / getSubmissionStatus /
\* getReports / getSubmissionFiles:  this.<map>[id] ?? await this.fetch<X>(id)
getEntity(s, kind, id) ==
    IF s.cache[kind][id] # Undefined
      THEN returned(s, s.cache[kind][id])
      ELSE get(s, UrlOf(s.k.op))

\* mutant: the entry is dropped before the request is sent
fetchEntityClearsEntry(s, kind, id) ==
    get([s EXCEPT !.cache[kind][id] = Undefined], UrlOf(s.k.op))

\* fetchAssignments / ... up to the await of getJson()
fetchEntity(s, kind, id) == get(s, UrlOf(s.k.op))

\* mutant: an entry that is present is kept (??=)
storeEntityIfAbsent(s, kind, id, v) ==
    IF s.cache[kind][id] = Undefined THEN [s EXCEPT !.cache[kind][id] = v] ELSE s

\* mutant: a value that arrives while the entry is filled is dropped
storeEntityFirstWins(s, kind, id, v) ==
    IF s.cache[kind][id] # Undefined /\ s.k.before = Undefined THEN s
    ELSE [s EXCEPT !.cache[kind][id] = v]

\* mutant: a map holds one entry, the one stored last
storeEntityEvicts(s, kind, id, v) ==
    [s EXCEPT !.cache[kind] = [i \in Ids |-> IF i = id THEN v ELSE Undefined]]

\* fetch<X>(id) after getJson(): store the value, return it
storeEntity(s, kind, id, v) ==
    [s EXCEPT !.cache[kind][id] = v]

\* fetchSubjectInstances() up to the await of getJson()
fetchSubjectInstances(s) == get(s, UrlOf(s.k.op))

\* fetchSubjectInstances() after getJson()
storeSubjectInstances(s, v) ==
    [s EXCEPT !.subjectInstances = listToRecord(v)]

\* getSubjectInstance(instanceId), the cached branch
getSubjectInstance(s, id) ==
    IF /\ s.subjectInstances # NullRecord
       /\ id \in DOMAIN s.subjectInstances.items
      THEN returned(s, s.subjectInstances.items[id])
      ELSE fetchSubjectInstances(s)

\* getSubjectInstances(), the cached branch
getSubjectInstances(s) ==
    IF s.subjectInstances # NullRecord
      THEN returned(s, ObjectValues(s.subjectInstances))
      ELSE fetchSubjectInstances(s)

\* the cache entry an operation reads and writes
CacheEntry(s, o) ==
    IF o.kind \in MapKinds THEN s.cache[o.kind][o.id] ELSE s.subjectInstances

\* what the operation returns once its fetch has stored v
ValueAfterFetch(o, v) ==
    IF o.kind = "subjectInstance" THEN ArrayAt(v, o.id) ELSE v

\* the operation a call runs: update() wraps
\* () => this.client.getExercise(this.exerciseId ?? 0), which reads the
\* panel's exercise every time it is invoked
CurrentOp(s) ==
    IF s.k.cmd = "update"
      THEN [s.k.op EXCEPT !.id = IF s.panel.exerciseId = NoId THEN 0
                                 ELSE s.panel.exerciseId[1]]
      ELSE s.k.op

\* the wrapped operation is called
callOp(s) ==
    LET o == CurrentOp(s)
        s1 == Logged([s EXCEPT !.k.ctx = "op",
                               !.k.op = o,
                               !.k.given = IF OpCalls(s.k.log) = 0
                                             THEN /\ Truthy(s.username)
                                                  /\ Truthy(s.password)
                                                  /\ Truthy(s.accessToken)
                                             ELSE @,
                               !.k.expect = IF s.lastGet.op = o
                                              THEN s.lastGet.val ELSE NoVal,
                               !.k.before = CacheEntry(s, o)],
                     <<"op", "call">>)
    IN CASE o.kind = "subjectInstance" -> getSubjectInstance(s1, o.id)
         [] o.kind = "subjectInstances" /\ o.fn = "get" -> getSubjectInstances(s1)
         [] o.kind = "subjectInstances" /\ o.fn = "fetch" -> fetchSubjectInstances(s1)
         [] o.kind \in MapKinds /\ o.fn = "get" -> getEntity(s1, o.kind, o.id)
         [] OTHER -> fetchEntity(s1, o.kind, o.id)

\* submitFile(exerciseId, filename, filecontent) up to the await of
\* postRaw()
submitFile(s, exerciseId, filename, filecontent) ==
    postRaw(Logged([s EXCEPT !.k.ctx = "submit"], <<"submit", "call">>),
            SubmitUrl(exerciseId), multipartBody(filename, filecontent))

\* the document the submit command uploads: path.basename(document.fileName)
\* and document.getText()
DocumentName == Text(<<"m", "a", "i", "n", ".", "c">>)
DocumentText == Text(<<"i", "n", "t", " ", "x", ";">>)

\* mutant: the submit command leaves the cache alone
submittedKeepsCache(s, d) ==
    LET id == s.k.exercise.assignedExerciseId
    IN finish(Logged(reveal(s, id), <<"submit", "ok">>), Ok(d))

\* the submit command once submitFile has returned
submitted(s, d) ==
    LET id == s.k.exercise.assignedExerciseId
        s1 == deleteEntry(s, "exercises", id)
    IN finish(Logged(reveal(s1, id), <<"submit", "ok">>), Ok(d))

\* the submit command once the file has been found and, if asked, the
\* user has answered the warning
submitConfirmed(s, upload) ==
    IF upload THEN submitFile(s, s.k.exercise.assignedExerciseId,
                              DocumentName, DocumentText)
    ELSE finish(s, Ok(NoVal))

\* mutant: a rejected upload is sent again, once
submitFailedRetries(s, e) ==
    IF Count(s.k.log, <<"submit", "fail">>) = 0
      THEN submitFile([LoggedCtx(s, "fail") EXCEPT !.k.resp = NoResp,
                                                   !.k.threw = NoErr],
                      s.k.exercise.assignedExerciseId, DocumentName, DocumentText)
      ELSE finish(LoggedCtx(s, "fail"), Thrown(e))

\* the submit command when submitFile throws: nothing catches the error
submitFailed(s, e) == finish(LoggedCtx(s, "fail"), Thrown(e))

\* ------------------------------------------------------------------------
\* withReauth
\* ------------------------------------------------------------------------

\* mutant: the wrong status is compared
IsUnauthorizedWrongStatus(e) == e.api /\ e.status = 403

\* mutant: every ApiError is taken for a rejected token
IsUnauthorizedAnyStatus(e) == e.api

\* error instanceof ApiError && error.status === 401
IsUnauthorized(e) == e.api /\ e.status = 401

\* mutant: the login is tried before the refresh
RecoveryStepLoginFirst(retries_) ==
    CASE retries_ = 0 -> "login"
      [] retries_ = 1 -> "refresh"
      [] OTHER -> "none"

\* mutant: case 1 is missing, the error surfaces after the refresh
RecoveryStepNoLogin(retries_) ==
    CASE retries_ = 0 -> "refresh"
      [] OTHER -> "none"

\* mutant: four attempts, two refreshes and then two logins
RecoveryStepFourAttempts(retries_) ==
    CASE retries_ \in {0, 1} -> "refresh"
      [] retries_ \in {2, 3} -> "login"
      [] OTHER -> "none"

\* mutant: the second recovery step is another refresh
RecoveryStepRefreshTwice(retries_) ==
    CASE retries_ \in {0, 1} -> "refresh"
      [] OTHER -> "none"

\* switch (retries++): the recovery step taken for the value before the
\* increment
RecoveryStep(retries_) ==
    CASE retries_ = 0 -> "refresh"
      [] retries_ = 1 -> "login"
      [] OTHER -> "none"

\* the HTTP status as logged
StatusEvent(e) ==
    IF ~e.api THEN "net" ELSE IF e.status = 401 THEN "401" ELSE "api"

\* the catch block of the retry loop
withReauthCatch(s, e) ==
    LET s1 == Logged(s, <<"op", StatusEvent(e)>>)
        s2 == [s1 EXCEPT !.k.retries = @ + 1]
    IN IF ~s.k.wrapped THEN finish(s1, Thrown(e))
       ELSE IF ~IsUnauthorized(e) THEN finish(s1, Thrown(e))
       ELSE CASE RecoveryStep(s.k.retries) = "refresh" -> refreshAccessToken(s2)
              [] RecoveryStep(s.k.retries) = "login" ->
                    IF Truthy(s.username) /\ Truthy(s.password)
                      THEN fetchAccessToken(s2, s.username, s.password, "relogin")
                      ELSE finish(s2, Thrown(e))
              [] OTHER -> finish(s2, Thrown(e))

\* fetch<X>(id) after getJson(): v is stored and returned
fetched(s, v) ==
    LET o == s.k.op
        s1 == IF SameSlot(s.lastGet.op, o) THEN [s EXCEPT !.lastGet = NoGet] ELSE s
    IN IF o.kind \in MapKinds
         THEN returned(storeEntity(s1, o.kind, o.id, v), ValueAfterFetch(o, v))
         ELSE returned(storeSubjectInstances(s1, v), ValueAfterFetch(o, v))

\* fetchReports / fetchSubmissionFiles after their loop, d being its
\* outcome: the list with the decoded items is stored and returned, or the
\* exception of atob leaves the operation, into the catch block of
\* withReauth or to the caller
decoded(s, body, d) ==
    IF d.ok THEN fetched(s, [body EXCEPT !.items = d.val])
    ELSE withReauthCatch(s, InvalidCharacterError(OpCalls(s.k.log)))

\* the operation resumes with the parsed body of its response
opResumed(s, body) ==
    IF s.k.op.kind \in DecodedKinds
      THEN decoded(s, body, decodeItems(body.items, s.k.op.kind = "reports"))
      ELSE fetched(s, body)

\* mutant: the operation is called without an access token
withReauthTokenSkipsLogin(s) == callOp(s)

\* withReauth from the access-token check to the first call of the operation
withReauthToken(s) ==
    IF ~Truthy(s.accessToken) /\ Truthy(s.username) /\ Truthy(s.password)
      THEN fetchAccessToken(s, s.username, s.password, "prelogin")
      ELSE callOp(s)

\* mutant: withReauth does not ask for the credentials that are missing
withReauthWithoutLogin(s, o) == withReauthToken(s)

\* withReauth(fetch) up to its first await
withReauth(s, o) ==
    IF ~Truthy(s.username) \/ ~Truthy(s.password)
      THEN login(s)
      ELSE withReauthToken(s)


\* the selectExercise command up to its await: the panel is revealed or
\* created, the exercise is selected and fetched
selectExercise(s, id) ==
    LET s1 == IF s.panel.open THEN reveal(s, id)
              ELSE [s EXCEPT !.panel.open = TRUE, !.panel.exerciseId = <<id>>]
        s2 == [s1 EXCEPT !.selected = <<id>>]
    IN withReauth(s2, s2.k.op)

\* update(clearContent) up to its await of withReauth(getExercise)
update(s, clearContent) ==
    withReauth([s EXCEPT !.panel.pc = "exercise", !.panel.updates = @ + 1,
                         !.panel.html = IF clearContent THEN Loading ELSE @],
               s.k.op)

\* the timer callback of update(): after the loop it calls update(false),
\* whose call is k
scheduledRefresh(s, k) ==
    LET s1 == [s EXCEPT !.panel.pc = "idle"]
        s2 == refreshLoop(s1, s.panel.exercise, 1)
    IN IF s.panel.exerciseId # <<s.panel.exercise.assignedExerciseId>> THEN s1
       ELSE IF s2.panel.timerError THEN s2
       ELSE update([s2 EXCEPT !.k = k], FALSE)

\* the pipeline's response and error have been consumed
Consumed(s) == [s EXCEPT !.k.resp = NoResp, !.k.threw = NoErr]

\* mutant: every error of the login request is rethrown
loginCatchAlwaysThrows(s, e) == finish(s, Thrown(e))

\* the catch block of login(): an ApiError is shown with a retry button,
\* anything else is rethrown
loginCatch(s, e) ==
    IF e.api THEN [s EXCEPT !.k.pc = "errprompt", !.k.resp = NoResp]
    ELSE finish(s, Thrown(e))

\* the caller of get / postRaw resumes with the response or the error
resumed(s) ==
    LET e == s.k.threw
        c == s.k.ctx
    IN IF e # NoErr
         THEN CASE c = "op" -> withReauthCatch(Consumed(s), e)
                [] c = "login" -> loginCatch(s, e)
                [] c = "prelogin" -> finish(LoggedCtx(s, "fail"), Thrown(e))
                [] c = "submit" -> submitFailed(s, e)
                [] OTHER -> callOp(Consumed(LoggedCtx(s, "fail")))
       ELSE IF c \in {"login", "prelogin", "relogin"}
         THEN [s EXCEPT !.username = s.k.sent.username,
                        !.password = s.k.sent.password,
                        !.k.pc = "json"]
       ELSE [s EXCEPT !.k.pc = "json"]

\* the body of the response has been read (await res.json())
bodyRead(s) ==
    LET c == s.k.ctx
        v == s.k.resp.body
    IN IF c = "op" THEN opResumed(Consumed(s), v)
       ELSE IF c = "submit" /\ s.k.cmd = "submit" THEN submitted(Consumed(s), v)
       ELSE IF c = "submit"
         THEN finish(Logged(Consumed(s), <<"submit", "ok">>), Ok(v))
       ELSE LET s1 == Consumed(LoggedCtx([s EXCEPT !.accessToken = v.accessToken],
                                         "ok"))
            IN IF c = "login" THEN withReauthToken(s1) ELSE callOp(s1)

\* the error message of login() is answered
errorAnswered(s, choice) ==
    IF choice = "Ujra" THEN login(Consumed(s))
    ELSE finish(s, Thrown(s.k.threw))

\* ------------------------------------------------------------------------
\* The server
\* ------------------------------------------------------------------------

NetworkFailure == NoResp

\* the value is an object with an identity of its own
Tagged(v) == "tag" \in DOMAIN v

\* the tags of the objects the tasks hold: response bodies that are on their
\* way or not yet consumed, and the values the last calls returned
BodyTags ==
    {flight[t][1].body.tag :
        t \in {u \in Tasks : flight[u] # << >> /\ Tagged(flight[u][1].body)}}
      \cup {task[t].resp.body.tag : t \in {u \in Tasks : Tagged(task[u].resp.body)}}
      \cup {task[t].result.val.tag : t \in {u \in Tasks : Tagged(task[u].result.val)}}
      \cup {task[t].exercise.tag : t \in {u \in Tasks : Tagged(task[u].exercise)}}
      \cup {panel.exercise.tag : x \in {y \in {0} : Tagged(panel.exercise)}}

\* the identity of the object a response body is parsed into: not the one
\* of the object the cache entry of that url holds, nor the one of another
\* body that has not been consumed yet
FreshTag(req) ==
    LET kept == IF req.url.ep = "students/subject-instances"
                  THEN {subjectInstances.items[id].tag :
                           id \in (IF subjectInstances = NullRecord THEN {}
                                   ELSE DOMAIN subjectInstances.items)}
                ELSE IF req.url.ep \in MapKinds
                  THEN {cache[req.url.ep][req.url.id].tag :
                           x \in (IF cache[req.url.ep][req.url.id] = Undefined
                                    THEN {} ELSE {0})}
                ELSE {}
        held == kept \cup BodyTags
    IN CHOOSE tag \in Tags : tag \notin held

Bodies(req) ==
    CASE req.url.ep \in {LoginUrl.ep, RefreshUrl.ep} ->
             {[accessToken |-> a] : a \in AccessTokens}
      [] req.url.ep = "students/subject-instances" ->
             {Arr(FreshTag(req), ids) : ids \in IdLists}
      [] req.url.ep = "exercises" ->
             {Exercise(FreshTag(req), req.url.id, l) : l \in SubmissionLists}
      [] req.url.ep = "assignmentDetails" ->
             {AssignmentDetail(FreshTag(req), h, <<0, 1>>) : h \in Handlings}
      [] req.url.ep = "submissionStatuses" ->
             {SubmissionStatus(FreshTag(req), f) : f \in BOOLEAN}
      [] req.url.ep \in DecodedKinds -> {Files(FreshTag(req), << >>)}
      [] OTHER -> {Obj(FreshTag(req))}

Responses(req) ==
    {NetworkFailure}
      \cup {[status |-> 200, cookies |-> c, body |-> b] :
               c \in SetCookieLists, b \in Bodies(req)}
      \cup {[status |-> st, cookies |-> c, body |-> NoVal] :
               st \in Statuses \ {200}, c \in SetCookieLists}

\* ------------------------------------------------------------------------
\* Actions
\* ------------------------------------------------------------------------

Init ==
    /\ username = Null
    /\ password = Null
    /\ accessToken = Null
    /\ refreshToken = Null
    /\ subjectInstances = NullRecord
    /\ cache = [kind \in MapKinds |-> [id \in Ids |-> Undefined]]
    /\ task = [t \in Tasks |-> IF t = "t1" THEN IdleTask
                               ELSE [IdleTask EXCEPT !.pc = "off"]]
    /\ panel = NoPanel
    /\ selected = NoId
    /\ allowSubmission = FALSE
    /\ flight = [t \in Tasks |-> << >>]
    /\ lastGet = NoGet
    /\ calls = [t \in Tasks |-> 0]
    /\ issued = Null

\* a collaborator calls client.withReauth(() => client.<operation>(id))
CallWithReauth(t, o) ==
    /\ task[t].pc = "idle"
    /\ calls[t] < MaxCalls
    /\ calls' = [calls EXCEPT ![t] = @ + 1]
    /\ Commit(t, withReauth([Snapshot(t) EXCEPT !.k = NewCall(t, o, TRUE)], o))
    /\ UNCHANGED <<flight, issued>>

\* a collaborator calls client.<operation>(id) directly, as the submit
\* command does with getExercise
CallBare(t, o) ==
    /\ task[t].pc = "idle"
    /\ calls[t] < MaxBareCalls
    /\ calls' = [calls EXCEPT ![t] = @ + 1]
    /\ Commit(t, callOp([Snapshot(t) EXCEPT !.k = NewCall(t, o, FALSE)]))
    /\ UNCHANGED <<flight, issued>>

\* the user answers the two input boxes of login()
AnswerLogin(t, u, p) ==
    /\ task[t].pc = "prompt"
    /\ Commit(t, fetchAccessToken(Snapshot(t), u, p, "login"))
    /\ UNCHANGED <<calls, flight, issued>>

\* the user answers the error message of login()
AnswerError(t, choice) ==
    /\ task[t].pc = "errprompt"
    /\ Commit(t, errorAnswered(Snapshot(t), choice))
    /\ UNCHANGED <<calls, flight, issued>>

\* the refresh token the server has issued last, once it has sent r: the
\* one a 2xx response sets
IssuedAfter(r) ==
    IF r.status # 0 /\ ResponseOk(r) THEN refreshTokenAfter(r.cookies, issued)
    ELSE issued

\* the server answers the request of task t and fetch() settles at once
Respond(t) ==
    /\ task[t].pc = "wait"
    /\ flight[t] = << >>
    /\ \E r \in Responses(task[t].req) :
          /\ Commit(t, onResponse(Snapshot(t), r))
          /\ issued' = IssuedAfter(r)
    /\ UNCHANGED <<calls, flight>>

\* the server answers the request of task t; the response is on its way
Serve(t) ==
    /\ task[t].pc = "wait"
    /\ flight[t] = << >>
    /\ \E r \in Responses(task[t].req) :
          /\ flight' = [flight EXCEPT ![t] = <<r>>]
          /\ issued' = IssuedAfter(r)
    /\ UNCHANGED <<username, password, accessToken, refreshToken,
                   subjectInstances, cache, task, panel, selected,
                   allowSubmission, lastGet, calls>>

\* fetch() settles with the response that was on its way to task t
Deliver(t) ==
    /\ task[t].pc = "wait"
    /\ flight[t] # << >>
    /\ Commit(t, onResponse(Snapshot(t), flight[t][1]))
    /\ flight' = [flight EXCEPT ![t] = << >>]
    /\ UNCHANGED <<calls, issued>>

\* the caller of the pipeline continues
Resume(t) ==
    /\ task[t].pc = "resumed"
    /\ Commit(t, resumed(Snapshot(t)))
    /\ UNCHANGED <<calls, flight, issued>>

\* res.json() settles
ReadBody(t) ==
    /\ task[t].pc = "json"
    /\ Commit(t, bodyRead(Snapshot(t)))
    /\ UNCHANGED <<calls, flight, issued>>

Step(t) ==
    \/ \E u \in UsernameInputs, p \in PasswordInputs : AnswerLogin(t, u, p)
    \/ \E choice \in {"Ujra", "dismissed"} : AnswerError(t, choice)
    \/ Respond(t)
    \/ Resume(t)
    \/ ReadBody(t)

Next ==
    \E t \in Tasks :
        \/ \E o \in Ops : CallWithReauth(t, o)
        \/ Step(t)

Spec == Init /\ [][Next]_vars

\* every request settles, every body is read, every prompt is answered
Fairness == \A t \in Tasks : WF_vars(Step(t))

FairSpec == Spec /\ Fairness

\* the sessions a call of withReauth can find: none (the client has just
\* been constructed), or credentials stored with or without an access token
\* and a refresh token (a recovery that failed has cleared them)
Sessions ==
    {[username |-> Null, password |-> Null, accessToken |-> Null,
      refreshToken |-> Null]}
      \cup [username : {"alice"}, password : {"pw"},
             accessToken : {Null, "at1"}, refreshToken : {Null, "rt1"}]

InitAuth ==
    /\ \E session \in Sessions :
          /\ username = session.username
          /\ password = session.password
          /\ accessToken = session.accessToken
          /\ refreshToken = session.refreshToken
          /\ issued = session.refreshToken
    /\ subjectInstances = NullRecord
    /\ cache = [kind \in MapKinds |-> [id \in Ids |-> Undefined]]
    /\ task = [t \in Tasks |-> IF t = "t1" THEN IdleTask
                               ELSE [IdleTask EXCEPT !.pc = "off"]]
    /\ panel = NoPanel
    /\ selected = NoId
    /\ allowSubmission = FALSE
    /\ flight = [t \in Tasks |-> << >>]
    /\ lastGet = NoGet
    /\ calls = [t \in Tasks |-> 0]

\* withReauth on each of these sessions
SpecAuth == InitAuth /\ [][Next]_vars

\* the entity operations called directly, without withReauth
NextCache ==
    \E t \in Tasks :
        \/ \E o \in Ops : CallBare(t, o)
        \/ Respond(t)
        \/ Resume(t)
        \/ ReadBody(t)

SpecCache == Init /\ [][NextCache]_vars

\* two collaborators call the entity operations concurrently, and the
\* responses arrive in any order
InitRace ==
    /\ username = Null
    /\ password = Null
    /\ accessToken = Null
    /\ refreshToken = Null
    /\ subjectInstances = NullRecord
    /\ cache = [kind \in MapKinds |-> [id \in Ids |-> Undefined]]
    /\ task = [t \in Tasks |-> IdleTask]
    /\ panel = NoPanel
    /\ selected = NoId
    /\ allowSubmission = FALSE
    /\ flight = [t \in Tasks |-> << >>]
    /\ lastGet = NoGet
    /\ calls = [t \in Tasks |-> 0]
    /\ issued = Null

\* the operations on the files of one submission
RaceOps == [fn : {"get", "fetch"}, kind : {"submissionFiles"}, id : {0}]

NextRace ==
    \E t \in Tasks :
        \/ \E o \in RaceOps : CallBare(t, o)
        \/ Serve(t)
        \/ Deliver(t)
        \/ Resume(t)
        \/ ReadBody(t)

SpecRace == InitRace /\ [][NextRace]_vars

\* a client that has logged in: the state login() leaves behind when the
\* server has answered the login request with a refresh-token cookie
InitSession ==
    /\ username = "alice"
    /\ password = "pw"
    /\ accessToken = "at1"
    /\ refreshToken = "rt1"
    /\ subjectInstances = NullRecord
    /\ cache = [kind \in MapKinds |-> [id \in Ids |-> Undefined]]
    /\ task = [t \in Tasks |-> IdleTask]
    /\ panel = NoPanel
    /\ selected = NoId
    /\ allowSubmission = FALSE
    /\ flight = [t \in Tasks |-> << >>]
    /\ lastGet = NoGet
    /\ calls = [t \in Tasks |-> 0]
    /\ issued = "rt1"

\* the operation the panel and the document provider wrap at the same time
ReauthRaceOps == [fn : {"get"}, kind : {"submissionFiles"}, id : {0}]

\* two collaborators call withReauth concurrently
NextReauthRace ==
    \E t \in Tasks :
        \/ \E o \in ReauthRaceOps : CallWithReauth(t, o)
        \/ Respond(t)
        \/ Resume(t)
        \/ ReadBody(t)

SpecReauthRace == InitSession /\ [][NextReauthRace]_vars

\* the selectExercise command
SelectExercise(t, id) ==
    /\ task[t].pc = "idle"
    /\ calls[t] < MaxCommands
    /\ calls' = [calls EXCEPT ![t] = @ + 1]
    /\ LET o == [fn |-> "get", kind |-> "exercises", id |-> id]
           k == [NewCall(t, o, TRUE) EXCEPT !.cmd = "select"]
       IN Commit(t, selectExercise([Snapshot(t) EXCEPT !.k = k], id))
    /\ UNCHANGED <<flight, issued>>

\* the submit command up to its await of getExercise; without a selected
\* exercise it shows an error message and returns
submit(s, t) ==
    IF s.selected = NoId
      THEN [s EXCEPT !.k = [NewCall(t, NoOp, FALSE) EXCEPT !.cmd = "submit",
                                                            !.result = Ok(NoVal)]]
      ELSE LET o == [fn |-> "get", kind |-> "exercises", id |-> s.selected[1]]
           IN callOp([s EXCEPT !.k = [NewCall(t, o, FALSE) EXCEPT !.cmd = "submit"]])

SubmitCommand(t) ==
    /\ task[t].pc = "idle"
    /\ calls[t] < MaxCommands
    /\ calls' = [calls EXCEPT ![t] = @ + 1]
    /\ Commit(t, submit(Snapshot(t), t))
    /\ UNCHANGED <<flight, issued>>

\* the submit command goes on to the upload, or returns: the document is
\* missing or closed, or the user does not confirm
Confirm(t, upload) ==
    /\ task[t].pc = "confirm"
    /\ Commit(t, submitConfirmed(Snapshot(t), upload))
    /\ UNCHANGED <<calls, flight, issued>>

\* the panel becomes visible, is revealed or refreshes itself:
\* update() starts
PanelUpdate(t) ==
    /\ panel.open
    /\ panel.exerciseId # NoId
    /\ panel.pc = "idle"
    /\ task[t].pc = "idle"
    /\ panel.updates < MaxUpdates
    /\ calls' = [calls EXCEPT ![t] = @ + 1]
    /\ LET o == [fn |-> "get", kind |-> "exercises", id |-> panel.exerciseId[1]]
           k == [NewCall(t, o, TRUE) EXCEPT !.cmd = "update"]
       IN Commit(t, update([Snapshot(t) EXCEPT !.k = k], TRUE))
    /\ UNCHANGED <<flight, issued>>

\* update() makes the next of its wrapped calls
PanelCall(t) ==
    /\ panel.pc = "tasks"
    /\ panel.todo # << >>
    /\ task[t].pc = "idle"
    /\ calls' = [calls EXCEPT ![t] = @ + 1]
    /\ LET k == [NewCall(t, Head(panel.todo), TRUE) EXCEPT !.cmd = "task"]
           s == [Snapshot(t) EXCEPT !.k = k, !.panel.todo = Tail(@)]
       IN Commit(t, withReauth(s, k.op))
    /\ UNCHANGED <<flight, issued>>

\* all wrapped calls of update() have settled
PanelSettled(t) ==
    /\ panel.pc = "tasks"
    /\ panel.todo = << >>
    /\ task[t].pc = "idle"
    /\ Commit(t, panelSettled(Snapshot(t)))
    /\ UNCHANGED <<calls, flight, issued>>

\* the timer of update() fires
ScheduledRefresh(t) ==
    /\ panel.pc = "timer"
    /\ task[t].pc = "idle"
    /\ panel.updates < MaxUpdates
    /\ calls' = [calls EXCEPT ![t] = @ + 1]
    /\ LET o == [fn |-> "get", kind |-> "exercises", id |-> panel.exerciseId[1]]
           k == [NewCall(t, o, TRUE) EXCEPT !.cmd = "update"]
       IN Commit(t, scheduledRefresh(Snapshot(t), k))
    /\ UNCHANGED <<flight, issued>>

\* the responses of a server that sets no cookie
PlainResponses(req) ==
    {r \in Responses(req) : r.cookies = << >>}

\* the server answers the request of task t without a cookie and fetch()
\* settles at once
RespondPlain(t) ==
    /\ task[t].pc = "wait"
    /\ flight[t] = << >>
    /\ \E r \in PlainResponses(task[t].req) :
          /\ Commit(t, onResponse(Snapshot(t), r))
          /\ issued' = IssuedAfter(r)
    /\ UNCHANGED <<calls, flight>>

\* the selectExercise command has created the panel for exercise 0 and its
\* getExercise has failed
InitPanel ==
    /\ username = "alice"
    /\ password = "pw"
    /\ accessToken = "at1"
    /\ refreshToken = "rt1"
    /\ subjectInstances = NullRecord
    /\ cache = [kind \in MapKinds |-> [id \in Ids |-> Undefined]]
    /\ task = [t \in Tasks |-> IdleTask]
    /\ panel = [NoPanel EXCEPT !.open = TRUE, !.exerciseId = <<0>>]
    /\ selected = <<0>>
    /\ allowSubmission = FALSE
    /\ flight = [t \in Tasks |-> << >>]
    /\ lastGet = NoGet
    /\ calls = [t \in Tasks |-> 0]
    /\ issued = "rt1"

\* the commands of the extension, next to direct calls of the client. The
\* calls the panel makes on its own are those of SpecPanel
NextSubmit ==
    \/ \E id \in Ids : SelectExercise(CommandRunner, id)
    \/ SubmitCommand(CommandRunner)
    \/ \E upload \in BOOLEAN : Confirm(CommandRunner, upload)
    \/ \E o \in Ops : CallBare(CommandRunner, o)
    \/ \E t \in Tasks : RespondPlain(t) \/ Resume(t) \/ ReadBody(t)

SpecSubmit == InitPanel /\ [][NextSubmit]_vars

\* the panel with its updates and its timer. update() starts its calls for
\* the submissions together; they touch different cache entries, and here
\* one is made after the other
NextPanel ==
    \/ PanelUpdate(PanelRunner)
    \/ PanelCall(PanelRunner)
    \/ PanelSettled(PanelRunner)
    \/ ScheduledRefresh(PanelRunner)
    \/ \E t \in Tasks : RespondPlain(t) \/ Resume(t) \/ ReadBody(t)

SpecPanel == InitPanel /\ [][NextPanel]_vars

\* the submissions of an exercise whose evaluation has ended
EvaluatedLists == {<<Submission(1, "EVALUATED", <<1>>)>>}

\* the responses of a server on which no submission is pending
EvaluatedResponses(req) ==
    IF req.url.ep = "exercises"
      THEN {r \in PlainResponses(req) : r.status # 200}
             \cup {[status |-> 200, cookies |-> << >>,
                     body |-> Exercise(FreshTag(req), req.url.id, l)] :
                      l \in EvaluatedLists}
      ELSE PlainResponses(req)

\* the server answers the request of task t; its exercises have no
\* submission under evaluation
RespondEvaluated(t) ==
    /\ task[t].pc = "wait"
    /\ flight[t] = << >>
    /\ \E r \in EvaluatedResponses(task[t].req) :
          /\ Commit(t, onResponse(Snapshot(t), r))
          /\ issued' = IssuedAfter(r)
    /\ UNCHANGED <<calls, flight>>

\* the panel with its updates on a server whose exercises have been
\* evaluated
NextHtml ==
    \/ PanelUpdate(PanelRunner)
    \/ PanelCall(PanelRunner)
    \/ PanelSettled(PanelRunner)
    \/ ScheduledRefresh(PanelRunner)
    \/ \E t \in Tasks : RespondEvaluated(t) \/ Resume(t) \/ ReadBody(t)

SpecHtml == InitPanel /\ [][NextHtml]_vars

\* ExercisePanel.update with its lock -------------------------------------
\* Every update() call is a run: it awaits the promise that is in this.lock
\* (pc "lock", awaits), stores a promise of its own in this.lock (own) and
\* awaits withReauth(getExercise) (pc "exercise"; asked is the exerciseId
\* the operation was last invoked with, tries the recoveries of withReauth),
\* builds the page and calls unlock() (pc "done"). withReauth(getExercise)
\* stands for its outcomes here: the exercise that was asked for, or an
\* error.

\* the promises the runs have created
Created(p) == Cardinality({j \in DOMAIN p.runs : p.runs[j].own # << >>})

\* the runs between `this.lock = new Promise(...)` and unlock()
Inside(p) == {j \in DOMAIN p.runs : p.runs[j].pc = "exercise"}

\* mutant: a run that gets past the lock does not replace this.lock
enterKeepsLock(p, i) ==
    [p EXCEPT !.html = IF p.runs[i].clear THEN Loading ELSE @,
              !.runs[i] = [@ EXCEPT !.pc = "exercise",
                                    !.own = <<Created(p) + 1>>,
                                    !.asked = p.exerciseId]]

\* update() from `await this.lock` to its await of withReauth: the run
\* stores its promise in this.lock, shows 'Loading ...' and withReauth
\* invokes getExercise(this.exerciseId)
enter(p, i) ==
    [p EXCEPT !.lock = Created(p) + 1,
              !.html = IF p.runs[i].clear THEN Loading ELSE @,
              !.runs[i] = [@ EXCEPT !.pc = "exercise",
                                    !.own = <<Created(p) + 1>>,
                                    !.asked = p.exerciseId]]

\* promise n is resolved: the runs that await it continue one after the
\* other, in the order of their calls, before any other event is handled
RECURSIVE resumeWaiters(_, _, _)
resumeWaiters(p, n, i) ==
    IF i > Len(p.runs) THEN p
    ELSE resumeWaiters(IF p.runs[i].pc = "lock" /\ p.runs[i].awaits = n
                         THEN enter(p, i) ELSE p,
                       n, i + 1)

\* mutant: the finally block does not call unlock()
unlockNever(p, i) == [p EXCEPT !.runs[i].pc = "done"]

\* the finally block of update(): unlock() resolves the promise of run i
unlock(p, i) ==
    resumeWaiters([p EXCEPT !.settled = @ \cup {p.runs[i].own[1]},
                            !.runs[i].pc = "done"],
                  p.runs[i].own[1], 1)

\* update(clearContent) up to its first suspension that another event can
\* follow: it returns when there is no exercise, waits for this.lock, or
\* enters at once when the promise in this.lock is resolved
lockedUpdate(p, clearContent) ==
    IF p.exerciseId = NoId THEN p
    ELSE LET q == [p EXCEPT !.runs = Append(@,
                      [pc |-> "lock", awaits |-> p.lock, own |-> << >>,
                       clear |-> clearContent, asked |-> NoId, tries |-> 0])]
         IN IF p.lock \in p.settled THEN enter(q, Len(q.runs)) ELSE q

\* update() of run i once withReauth(getExercise) has settled: the page is
\* built from the exercise, or the error is logged; then unlock()
lockedUpdateSettled(p, i, res, maps) ==
    unlock(IF res.st = "ok"
             THEN [p EXCEPT !.exercise = res.val,
                            !.later = UnderEvaluation(res.val.submissions),
                            !.html = Page(res.val, maps)]
             ELSE p,
           i)

\* ExercisePanel.reveal(exerciseId) on the open panel
RevealPanel(id) ==
    /\ panel.open
    /\ panel.exerciseId # <<id>>
    /\ Len(panel.runs) < MaxOverlap
    /\ panel' = lockedUpdate(reveal(Snapshot(PanelRunner), id).panel, TRUE)
    /\ UNCHANGED <<username, password, accessToken, refreshToken,
                   subjectInstances, cache, task, selected, allowSubmission,
                   flight, lastGet, calls, issued>>

\* the panel becomes visible, or the webview asks for a refresh and the
\* call of the message handler has settled
ViewStateChanged ==
    /\ panel.open
    /\ Len(panel.runs) < MaxOverlap
    /\ panel' = lockedUpdate(panel, TRUE)
    /\ UNCHANGED <<username, password, accessToken, refreshToken,
                   subjectInstances, cache, task, selected, allowSubmission,
                   flight, lastGet, calls, issued>>

\* the timer of an update that found a pending submission fires while the
\* panel shows the exercise of that update
TimerUpdate ==
    /\ panel.open
    /\ panel.later
    /\ panel.exerciseId = <<panel.exercise.assignedExerciseId>>
    /\ Len(panel.runs) < MaxOverlap
    /\ panel' = lockedUpdate([panel EXCEPT !.later = FALSE], FALSE)
    /\ UNCHANGED <<username, password, accessToken, refreshToken,
                   subjectInstances, cache, task, selected, allowSubmission,
                   flight, lastGet, calls, issued>>

\* withReauth of run i has caught a 401 and recovered: it invokes
\* getExercise(this.exerciseId) again
OperationRetried(i) ==
    /\ i \in Inside(panel)
    /\ panel.runs[i].tries < 2
    /\ panel' = [panel EXCEPT !.runs[i].tries = @ + 1,
                              !.runs[i].asked = panel.exerciseId]
    /\ UNCHANGED <<username, password, accessToken, refreshToken,
                   subjectInstances, cache, task, selected, allowSubmission,
                   flight, lastGet, calls, issued>>

\* what withReauth(getExercise) of a run yields
LockOutcomes(run) ==
    {Thrown(TransportError("op", run.tries + 1))}
      \cup {Ok(Exercise("a", run.asked[1], l)) : l \in SubmissionLists}

\* withReauth(getExercise) of run i settles
ExerciseSettled(i) ==
    /\ i \in Inside(panel)
    /\ \E res \in LockOutcomes(panel.runs[i]) :
          panel' = lockedUpdateSettled(panel, i, res, cache)
    /\ UNCHANGED <<username, password, accessToken, refreshToken,
                   subjectInstances, cache, task, selected, allowSubmission,
                   flight, lastGet, calls, issued>>

NextLock ==
    \/ \E id \in Ids : RevealPanel(id)
    \/ ViewStateChanged
    \/ TimerUpdate
    \/ \E i \in 1..MaxOverlap : OperationRetried(i) \/ ExerciseSettled(i)

SpecLock == InitPanel /\ [][NextLock]_vars

\* every request terminates: the call of a run inside settles
FairSpecLock ==
    SpecLock /\ \A i \in 1..MaxOverlap : WF_vars(ExerciseSettled(i))

\* two collaborators call withReauth concurrently on a client that has not
\* logged in: each of them asks the user for the credentials
NextLoginRace ==
    \E t \in Tasks :
        \/ \E o \in ReauthRaceOps : CallWithReauth(t, o)
        \/ \E u \in UsernameInputs, p \in PasswordInputs : AnswerLogin(t, u, p)
        \/ \E choice \in {"Ujra", "dismissed"} : AnswerError(t, choice)
        \/ RespondPlain(t)
        \/ Resume(t)
        \/ ReadBody(t)

SpecLoginRace == InitRace /\ [][NextLoginRace]_vars

\* texts a server puts into a report or an uploaded file
Hello == Text(<<"h", "e", "l", "l", "o">>)
ReportJson == Text(<<"{", "\"", "r", "e", "p", "o", "r", "t", "_", "t", "y", "p", "e", "\"", ":", "\"", "X", "\"", ",", "\"", "t", "e", "s", "t", "s", "\"", ":", "[", "]", "}">>)
TruncatedJson == Text(<<"{", "\"", "a", "\"", ":">>)
Filename == Text(<<"o", "u", "t", ".", "j", "s", "o", "n">>)

\* the contents a server sends: the base64 of the UTF-8 bytes of a text, the
\* base64 of a byte that is no UTF-8, and two strings that are no base64 (a
\* character outside the alphabet, a length of 1 modulo 4)
Payloads ==
    {base64(utf8Encode(Hello)), base64(utf8Encode(ReportJson)),
     base64(utf8Encode(TruncatedJson)), base64(<<255>>),
     Text(<<"a", "!", "c", "d">>), Text(<<"a", "b", "c", "d", "e">>)}
PayloadLists ==
    {<< >>} \cup {<<FileItem(Filename, JStr(c))>> : c \in Payloads}
      \cup {<<FileItem(Filename, JStr(c1)), FileItem(Filename, JStr(c2))>> :
               c1 \in Payloads, c2 \in Payloads}

\* the responses to a request for reports or uploaded files
PayloadResponses(req) ==
    {r \in PlainResponses(req) : r.status # 200}
      \cup {[status |-> 200, cookies |-> << >>,
              body |-> Files(FreshTag(req), items)] : items \in PayloadLists}

\* the server answers the request of task t for reports or uploaded files
RespondPayload(t) ==
    /\ task[t].pc = "wait"
    /\ flight[t] = << >>
    /\ task[t].req.url.ep \in DecodedKinds
    /\ \E r \in PayloadResponses(task[t].req) :
          /\ Commit(t, onResponse(Snapshot(t), r))
          /\ issued' = IssuedAfter(r)
    /\ UNCHANGED <<calls, flight>>

\* the panel's calls for the reports of an evaluation and for the files of
\* a submission, made directly
DecodeOps == [fn : {"get", "fetch"}, kind : DecodedKinds, id : {0}]

NextDecode ==
    \/ \E o \in DecodeOps : CallBare(CommandRunner, o)
    \/ \E t \in Tasks : RespondPayload(t) \/ Resume(t) \/ ReadBody(t)

SpecDecode == InitSession /\ [][NextDecode]_vars

\* get(url) with its headers as the text that is on the wire ----------------
\* get(url) up to its await of fetch()
getText(s, url) ==
    [s EXCEPT !.k.pc = "wait",
              !.k.ctx = "get",
              !.k.req = [method |-> "GET", url |-> url, body |-> NoVal,
                         Authorization |-> AuthorizationHeader(s.accessToken),
                         Cookie |-> cookieHeaderText(s.refreshToken)]]

\* get(url) once fetch() has settled: a rejected fetch and a non-2xx
\* response throw, after a 2xx response the refresh token is taken from the
\* Set-Cookie headers and the response is returned
gotText(s, r) ==
    LET s1 == [s EXCEPT !.k.pc = "idle", !.k.req = NoReq, !.k.resp = r]
    IN IF r.status = 0
         THEN [s1 EXCEPT !.k.result = Thrown(TransportError("get", 0))]
       ELSE IF ~ResponseOk(r)
         THEN [s1 EXCEPT !.k.result = Thrown(fromResponse(r, "get", 0))]
       ELSE [s1 EXCEPT !.refreshToken = refreshTokenFrom(r.cookies, @),
                       !.k.result = Ok(NoVal)]

\* Set-Cookie headers a server sends
SetCookieTexts ==
    {Text(<<"r", "e", "f", "r", "e", "s", "h", "-", "t", "o", "k", "e", "n", "=", "a", "b", "c", "1", "2", "3", ";", " ", "P", "a", "t", "h", "=", "/">>),
     Text(<<"r", "e", "f", "r", "e", "s", "h", "-", "t", "o", "k", "e", "n", "=", "a", "b", "c", "1", "2", "3">>),
     Text(<<"r", "e", "f", "r", "e", "s", "h", "-", "t", "o", "k", "e", "n", "=", "a", "=", "b", ";", " ", "P", "a", "t", "h", "=", "/", ";", " ", "H", "t", "t", "p", "O", "n", "l", "y">>),
     Text(<<"r", "e", "f", "r", "e", "s", "h", "-", "t", "o", "k", "e", "n", "=", ";", " ", "P", "a", "t", "h", "=", "/">>),
     Text(<<"r", "e", "f", "r", "e", "s", "h", "-", "t", "o", "k", "e", "n">>),
     Text(<<"s", "e", "s", "s", "i", "o", "n", "=", "s", ";", " ", "P", "a", "t", "h", "=", "/">>)}
SetCookieTextLists ==
    {<< >>} \cup {<<h>> : h \in SetCookieTexts}
      \cup {<<h1, h2>> : h1 \in SetCookieTexts, h2 \in SetCookieTexts}

EmptyObject == Text(<<"{", "}">>)

\* a response with its status text, content type and body as text
TextResponse(status, cookies, statusText, contentType, text, unreadable) ==
    [status |-> status, cookies |-> cookies, body |-> NoVal,
     statusText |-> statusText, contentType |-> contentType, text |-> text,
     unreadable |-> unreadable]

TextResponses ==
    {NetworkFailure}
      \cup {TextResponse(st, c, << >>, ApplicationJson, EmptyObject, FALSE) :
               st \in Statuses, c \in SetCookieTextLists}

\* what a server sends with an error: status texts (HTTP/2 has none),
\* content types (<< >>: no such header) and bodies
StatusTexts == {<< >>, Text(<<"U", "n", "a", "u", "t", "h", "o", "r", "i", "z", "e", "d">>)}
ContentTypes == {<< >>, ApplicationJson, Text(<<"a", "p", "p", "l", "i", "c", "a", "t", "i", "o", "n", "/", "j", "s", "o", "n", ";", "c", "h", "a", "r", "s", "e", "t", "=", "U", "T", "F", "-", "8">>), Text(<<"t", "e", "x", "t", "/", "p", "l", "a", "i", "n">>)}
ErrorBodies ==
    {<< >>, EmptyObject,
     Text(<<"{", "\"", "m", "e", "s", "s", "a", "g", "e", "\"", ":", "\"", "B", "a", "d", " ", "c", "r", "e", "d", "e", "n", "t", "i", "a", "l", "s", "\"", "}">>),
     Text(<<"{", "\"", "m", "e", "s", "s", "a", "g", "e", "\"", ":", "\"", "\"", "}">>),
     Text(<<"{", "\"", "m", "e", "s", "s", "a", "g", "e", "\"", ":", "4", "2", ",", "\"", "c", "o", "d", "e", "\"", ":", "7", "}">>),
     Text(<<"B", "a", "d", " ", "g", "a", "t", "e", "w", "a", "y">>),
     Text(<<"{", "\"", "m", "e", "s", "s", "a", "g", "e", "\"", ":">>)}
ErrorResponses ==
    {TextResponse(st, << >>, stt, ct, b, u) :
        st \in Statuses \ {200}, stt \in StatusTexts, ct \in ContentTypes,
        b \in ErrorBodies, u \in BOOLEAN}

\* the server answers the request of task t with an error
RespondError(t) ==
    /\ task[t].pc = "wait"
    /\ \E r \in ErrorResponses : Commit(t, gotText(Snapshot(t), r))
    /\ UNCHANGED <<calls, flight, issued>>


\* a session whose refresh token is held as text
InitText ==
    /\ username = "alice"
    /\ password = "pw"
    /\ accessToken = "at1"
    /\ refreshToken = Text(<<"r", "t", "1">>)
    /\ subjectInstances = NullRecord
    /\ cache = [kind \in MapKinds |-> [id \in Ids |-> Undefined]]
    /\ task = [t \in Tasks |-> IdleTask]
    /\ panel = NoPanel
    /\ selected = NoId
    /\ allowSubmission = FALSE
    /\ flight = [t \in Tasks |-> << >>]
    /\ lastGet = NoGet
    /\ calls = [t \in Tasks |-> 0]
    /\ issued = "rt1"

\* a collaborator's request reaches get(url)
CallGet(t, o) ==
    /\ task[t].pc = "idle"
    /\ calls[t] < MaxBareCalls
    /\ calls' = [calls EXCEPT ![t] = @ + 1]
    /\ Commit(t, getText([Snapshot(t) EXCEPT !.k = NewCall(t, o, FALSE)], UrlOf(o)))
    /\ UNCHANGED <<flight, issued>>

\* the server answers the request of task t with headers as text
RespondText(t) ==
    /\ task[t].pc = "wait"
    /\ \E r \in TextResponses : Commit(t, gotText(Snapshot(t), r))
    /\ UNCHANGED <<calls, flight, issued>>

NextText ==
    \/ \E o \in DecodeOps : CallGet(CommandRunner, o)
    \/ RespondText(CommandRunner)

SpecText == InitText /\ [][NextText]_vars

\* requests that the server answers with an error
NextApiError ==
    \/ \E o \in DecodeOps : CallGet(CommandRunner, o)
    \/ RespondError(CommandRunner)

SpecApiError == InitText /\ [][NextApiError]_vars

\* file names and file contents: one line, lines that end with a line feed
\* and with CRLF, and a text with a line that is the boundary line
Filenames == {DocumentName, Text(<<"M", "a", "i", "n", ".", "j", "a", "v", "a">>),
              Text(<<"a", " ", "\"", "b", "\"", ".", "c">>)}
FileContents ==
    {<< >>, DocumentText, Text(<<"i", "n", "t", " ", "x", ";">>) \o <<10>> \o Text(<<"i", "n", "t", " ", "y", ";">>) \o <<10>>,
     Text(<<"i", "n", "t", " ", "x", ";">>) \o CRLF \o Text(<<"i", "n", "t", " ", "y", ";">>),
     Text(<<"i", "n", "t", " ", "x", ";">>) \o CRLF \o Dashes \o Boundary \o CRLF \o ConfirmedLine \o CRLF \o CRLF
        \o TrueLiteral}

\* a collaborator calls client.submitFile(exerciseId, filename, filecontent)
SubmitFile(t, exerciseId, filename, filecontent) ==
    /\ task[t].pc = "idle"
    /\ calls[t] < MaxCommands
    /\ calls' = [calls EXCEPT ![t] = @ + 1]
    /\ Commit(t, submitFile([Snapshot(t) EXCEPT !.k = NewCall(t, NoOp, FALSE)],
                            exerciseId, filename, filecontent))
    /\ UNCHANGED <<flight, issued>>

NextUpload ==
    \/ \E id \in Ids, f \in Filenames, c \in FileContents :
          SubmitFile(CommandRunner, id, f, c)
    \/ \E t \in Tasks : Respond(t) \/ Resume(t) \/ ReadBody(t)

SpecUpload == InitSession /\ [][NextUpload]_vars

\* the tree view expands the element of assignment id: getChildren up to
\* its await of withReauth(getAssignment)
ExpandAssignment(t, id) ==
    /\ task[t].pc = "idle"
    /\ calls[t] < MaxCommands
    /\ calls' = [calls EXCEPT ![t] = @ + 1]
    /\ LET o == [fn |-> "get", kind |-> "assignmentDetails", id |-> id]
           k == [NewCall(t, o, TRUE) EXCEPT !.cmd = "expand"]
       IN Commit(t, withReauth([Snapshot(t) EXCEPT !.k = k], o))
    /\ UNCHANGED <<flight, issued>>

\* the tree view on a client that has logged in
NextTree ==
    \/ \E id \in Ids : ExpandAssignment(CommandRunner, id)
    \/ \E t \in Tasks : RespondPlain(t) \/ Resume(t) \/ ReadBody(t)

SpecTree == InitSession /\ [][NextTree]_vars

\* the user closes the panel
DisposePanel(t) ==
    /\ panel.open
    /\ Commit(t, dispose(Snapshot(t)))
    /\ UNCHANGED <<calls, flight, issued>>

\* the panel, which the user may close at any moment
NextDispose ==
    \/ NextPanel
    \/ DisposePanel(PanelRunner)

SpecDispose == InitPanel /\ [][NextDispose]_vars

\* the commands of the extension and the user who closes the panel, on a
\* client that has logged in and has no panel yet
NextSelect ==
    \/ \E id \in Ids : SelectExercise(CommandRunner, id)
    \/ SubmitCommand(CommandRunner)
    \/ \E upload \in BOOLEAN : Confirm(CommandRunner, upload)
    \/ DisposePanel(CommandRunner)
    \/ \E t \in Tasks : RespondPlain(t) \/ Resume(t) \/ ReadBody(t)

SpecSelect == InitSession /\ [][NextSelect]_vars

\* isAssignmentLocked --------------------------------------------------------
\* Date.parse and Date.now yield milliseconds since the epoch, and Date.parse
\* yields NaN for a text that is no date; a comparison with NaN is false
NaN == -1
Less(a, b) == a # NaN /\ b # NaN /\ a < b

\* the date texts of the assignments explored, with their values
DateTable ==
    <<[text |-> "1970-01-01T00:00:00.000Z", ms |-> 0],
      [text |-> "1970-01-01T00:00:00.001Z", ms |-> 1],
      [text |-> "1970-01-01T00:00:00.002Z", ms |-> 2],
      [text |-> "1970-01-01T00:00:00.003Z", ms |-> 3],
      [text |-> "1970-01-01T00:00:00.004Z", ms |-> 4]>>
DateTexts == {DateTable[i].text : i \in DOMAIN DateTable} \cup {"", "soon"}
Instants == {DateTable[i].ms : i \in DOMAIN DateTable}

\* Date.parse(text)
DateParse(text) ==
    IF \E i \in DOMAIN DateTable : DateTable[i].text = text
      THEN DateTable[CHOOSE i \in DOMAIN DateTable : DateTable[i].text = text].ms
      ELSE NaN

\* the result false of isAssignmentLocked
NotLocked == "false"

\* mutant: the end of the assignment is tested first
isAssignmentLockedEndFirst(assignment, now) ==
    IF ~Less(now, DateParse(assignment.endTime)) THEN "LATE"
    ELSE IF Less(now, DateParse(assignment.startTime)) THEN "EARLY"
    ELSE NotLocked

\* isAssignmentLocked(assignment), now being what Date.now() returns
isAssignmentLocked(assignment, now) ==
    IF Less(now, DateParse(assignment.startTime)) THEN "EARLY"
    ELSE IF Less(now, DateParse(assignment.endTime)) THEN NotLocked
    ELSE "LATE"

\* a collaborator asks whether an assignment is locked
IsAssignmentLocked(t, assignment, now) ==
    /\ task[t].pc = "idle"
    /\ calls[t] < MaxBareCalls
    /\ calls' = [calls EXCEPT ![t] = @ + 1]
    /\ task' = [task EXCEPT ![t] =
                   [NewCall(t, NoOp, FALSE) EXCEPT
                      !.cmd = "locked",
                      !.exercise = assignment,
                      !.result = Ok([now |-> now,
                                     locked |-> isAssignmentLocked(assignment, now)])]]
    /\ UNCHANGED <<username, password, accessToken, refreshToken,
                   subjectInstances, cache, panel, selected, allowSubmission,
                   flight, lastGet, issued>>

NextLocked ==
    \E startTime \in DateTexts, endTime \in DateTexts, now \in Instants :
        IsAssignmentLocked(CommandRunner,
                           [startTime |-> startTime, endTime |-> endTime], now)

SpecLocked == InitSession /\ [][NextLocked]_vars

\* the older revision of the client (extension.ts) -------------------------
\* fetchAccessToken and refreshAccessToken up to the await of post(): the
\* tokens are not cleared
olderFetchAccessToken(s, u, p, ctx) ==
    LET s1 == [s EXCEPT !.k.ctx = ctx,
                        !.k.sent = [username |-> u, password |-> p]]
    IN postRaw(LoggedCtx(s1, "call"), LoginUrl, [username |-> u, password |-> p])

olderRefreshAccessToken(s) ==
    postRaw(LoggedCtx([s EXCEPT !.k.ctx = "refresh"], "call"), RefreshUrl,
            [withCredentials |-> TRUE])

\* mutant: a third login is attempted
olderRecoveryStepFiveAttempts(retries_) ==
    CASE retries_ \in {0, 1} -> "refresh"
      [] retries_ \in {2, 3, 4} -> "login"
      [] OTHER -> "none"

\* switch (retries++) with case 0: case 1: and case 2: case 3:
olderRecoveryStep(retries_) ==
    CASE retries_ \in {0, 1} -> "refresh"
      [] retries_ \in {2, 3} -> "login"
      [] OTHER -> "none"

\* the catch block of the loop: the recovery is awaited in the catch block
\* itself
olderCatch(s, e) ==
    LET s1 == Logged(s, <<"op", StatusEvent(e)>>)
        s2 == [s1 EXCEPT !.k.retries = @ + 1]
    IN IF ~IsUnauthorized(e) THEN finish(s1, Thrown(e))
       ELSE CASE olderRecoveryStep(s.k.retries) = "refresh" ->
                    olderRefreshAccessToken(s2)
              [] olderRecoveryStep(s.k.retries) = "login" ->
                    IF Truthy(s.username) /\ Truthy(s.password)
                      THEN olderFetchAccessToken(s2, s.username, s.password, "relogin")
                      ELSE finish(s2, Thrown(e))
              [] OTHER -> finish(s2, Thrown(e))

\* withReauth(fetch) up to its first await
olderWithReauth(s) ==
    IF ~Truthy(s.username) \/ ~Truthy(s.password) THEN login(s)
    ELSE IF ~Truthy(s.accessToken)
      THEN olderFetchAccessToken(s, s.username, s.password, "prelogin")
    ELSE callOp(s)

\* the caller of get / post resumes: an error of the operation is caught by
\* the loop, an error of a recovery request leaves withReauth
olderResumed(s) ==
    LET e == s.k.threw
        c == s.k.ctx
    IN IF e # NoErr
         THEN IF c = "op" THEN olderCatch(Consumed(s), e)
              ELSE finish(LoggedCtx(s, "fail"), Thrown(e))
       ELSE IF c \in {"prelogin", "relogin"}
         THEN [s EXCEPT !.username = s.k.sent.username,
                        !.password = s.k.sent.password,
                        !.k.pc = "json"]
       ELSE [s EXCEPT !.k.pc = "json"]

\* res.json() has settled: fetchExercise returns the body, the recovery
\* stores the access token and the loop calls the operation again
olderBodyRead(s) ==
    IF s.k.ctx = "op" THEN returned(Consumed(s), s.k.resp.body)
    ELSE callOp(Consumed(LoggedCtx([s EXCEPT !.accessToken = s.k.resp.body.accessToken],
                                   "ok")))

\* the operations the older revision wraps: fetchExercise(exerciseId)
OlderOps == [fn : {"fetch"}, kind : {"exercises"}, id : Ids]

OlderCall(t, o) ==
    /\ task[t].pc = "idle"
    /\ calls[t] < MaxCalls
    /\ calls' = [calls EXCEPT ![t] = @ + 1]
    /\ Commit(t, olderWithReauth([Snapshot(t) EXCEPT !.k = NewCall(t, o, TRUE)]))
    /\ UNCHANGED <<flight, issued>>

OlderResume(t) ==
    /\ task[t].pc = "resumed"
    /\ Commit(t, olderResumed(Snapshot(t)))
    /\ UNCHANGED <<calls, flight, issued>>

OlderReadBody(t) ==
    /\ task[t].pc = "json"
    /\ Commit(t, olderBodyRead(Snapshot(t)))
    /\ UNCHANGED <<calls, flight, issued>>

NextOlder ==
    \E t \in Tasks :
        \/ \E o \in OlderOps : OlderCall(t, o)
        \/ Respond(t)
        \/ OlderResume(t)
        \/ OlderReadBody(t)

\* a client that holds credentials, with or without tokens
InitOlder == InitAuth /\ Truthy(username) /\ Truthy(password)

SpecOlder == InitOlder /\ [][NextOlder]_vars


\* ------------------------------------------------------------------------
\* Properties of withReauth
\* ------------------------------------------------------------------------

\* the outcomes of the invocations of the wrapped operation, in order:
\* "ok", "401", "api" (another HTTP status) or "net" (no response)
RECURSIVE OpOutcomes(_)
OpOutcomes(log) ==
    IF log = << >> THEN << >>
    ELSE LET e == Head(log)
         IN IF e[1] = "op" /\ e[2] \in {"ok", "401", "api", "net"}
              THEN <<e[2]>> \o OpOutcomes(Tail(log))
              ELSE OpOutcomes(Tail(log))

\* the recovery requests withReauth issued, in order
RECURSIVE Recoveries(_)
Recoveries(log) ==
    IF log = << >> THEN << >>
    ELSE LET e == Head(log)
         IN IF e[1] \in {"refresh", "relogin"} /\ e[2] = "call"
              THEN <<e[1]>> \o Recoveries(Tail(log))
              ELSE Recoveries(Tail(log))

\* a withReauth call that held credentials and an access token when it
\* entered its retry loop has settled
Settled(t) ==
    /\ task[t].wrapped
    /\ task[t].given
    /\ task[t].pc = "idle"
    /\ task[t].result # Pending

\* C1: with credentials and an access token stored when withReauth first
\* calls the operation, an operation that fails with 401 once and succeeds
\* when called again makes withReauth send one refresh-token request and no
\* login request, call the operation twice and return its result; the call
\* never ends after the single 401
C1_RefreshOnceThenResult ==
    \A t \in Tasks :
        (Settled(t) /\ OpOutcomes(task[t].log) \in {<<"401">>, <<"401", "ok">>})
          => /\ OpOutcomes(task[t].log) = <<"401", "ok">>
             /\ OpCalls(task[t].log) = 2
             /\ Recoveries(task[t].log) = <<"refresh">>
             /\ Count(task[t].log, <<"relogin", "call">>) = 0
             /\ task[t].result.st = "ok"
             /\ task[t].result.val # NoVal

C1_Witness ==
    \E t \in Tasks :
        /\ Settled(t)
        /\ OpOutcomes(task[t].log) = <<"401", "ok">>
        /\ task[t].result.st = "ok"


\* C2: with credentials and an access token stored, a wrapped operation
\* that fails with 401 every time is called three times, with one
\* refresh-token request and then one login request in between, and
\* withReauth throws the 401 error of the operation (the one its third
\* call threw)
C2_ThreeCallsThenError ==
    \A t \in Tasks :
        (Settled(t) /\ \A i \in DOMAIN OpOutcomes(task[t].log) :
                           OpOutcomes(task[t].log)[i] = "401")
          => /\ OpOutcomes(task[t].log) = <<"401", "401", "401">>
             /\ OpCalls(task[t].log) = 3
             /\ Recoveries(task[t].log) = <<"refresh", "relogin">>
             /\ task[t].result = Thrown(ApiError(401, "op", 3))

C2_Witness ==
    \E t \in Tasks :
        /\ Settled(t)
        /\ OpOutcomes(task[t].log) = <<"401", "401", "401">>
        /\ task[t].result.st = "err"

\* C3: an error of the wrapped operation that is no 401 ApiError (another
\* status, or no response at all) ends withReauth at once: nothing is
\* requested and the operation is not called after it, and that error is
\* thrown
C3_OtherErrorsNotRetried ==
    \A t \in Tasks :
        task[t].wrapped =>
            \A i \in DOMAIN task[t].log :
                task[t].log[i] \in {<<"op", "api">>, <<"op", "net">>}
                  => /\ i = Len(task[t].log)
                     /\ task[t].pc = "idle"
                     /\ task[t].result.st = "err"
                     /\ task[t].result.err.by = "op"
                     /\ task[t].result.err.n = OpCalls(task[t].log)
                     /\ task[t].result.err.api = (task[t].log[i][2] = "api")
                     /\ task[t].result.err.status # 401
                     /\ (OpCalls(task[t].log) = 1 => Recoveries(task[t].log) = << >>)

C3_Witness ==
    \E t \in Tasks :
        /\ Settled(t)
        /\ OpOutcomes(task[t].log) = <<"api">>
        /\ task[t].result = Thrown(ApiError(500, "op", 1))


\* the bounds of one withReauth call
WithinBounds(t) ==
    /\ Count(task[t].log, <<"refresh", "call">>) <= 1
    /\ Count(task[t].log, <<"relogin", "call">>) <= 1
    /\ Len(Recoveries(task[t].log)) <= 2
    /\ OpCalls(task[t].log) <= 3

Running(t) == task[t].pc \notin {"idle", "off"}

\* C4 as stated: a withReauth call sends at most one refresh-token request
\* and at most one recovery login request, calls the operation at most
\* three times, and, every request settling, always ends
C4_BoundedAndTerminates ==
    /\ [](\A t \in Tasks : WithinBounds(t))
    /\ \A t \in Tasks : [](Running(t) => <>(task[t].pc = "idle"))

\* C4 amended: the bounds hold, and the call ends from every point outside
\* the interactive login, whose prompt loop goes on for as long as the user
\* chooses to retry
C4_BoundedAndTerminatesOutsideLogin ==
    /\ [](\A t \in Tasks : WithinBounds(t))
    /\ \A t \in Tasks :
          []((Running(t) /\ task[t].ctx # "login") => <>(task[t].pc = "idle"))

C4_Witness ==
    \E t \in Tasks :
        /\ Settled(t)
        /\ OpOutcomes(task[t].log) = <<"401", "401", "ok">>
        /\ Recoveries(task[t].log) = <<"refresh", "relogin">>
        /\ task[t].result.st = "ok"

\* the events of the retry loop: calls and outcomes of the operation and of
\* the recovery steps
RECURSIVE LoopEvents(_)
LoopEvents(log) ==
    IF log = << >> THEN << >>
    ELSE LET e == Head(log)
         IN IF e[1] \in {"op", "refresh", "relogin"} /\ e[2] # "request"
              THEN <<e>> \o LoopEvents(Tail(log))
              ELSE LoopEvents(Tail(log))

Completion(c) == {<<c, "ok">>, <<c, "fail">>}

\* C5: in one withReauth call the refresh-token request is the first
\* recovery step, directly after the first 401; the login with the stored
\* username and password is the second, after a completed refresh attempt
\* and a second 401; and the operation is called again only after the
\* recovery request before it has completed
C5_RecoveryOrder ==
    \A t \in Tasks :
        LET L == LoopEvents(task[t].log)
        IN /\ \A i \in DOMAIN L :
                /\ L[i] = <<"refresh", "call">>
                     => i = 3 /\ L[1] = <<"op", "call">> /\ L[2] = <<"op", "401">>
                /\ L[i] = <<"relogin", "call">>
                     => /\ i = 7
                        /\ L[3] = <<"refresh", "call">>
                        /\ L[4] \in Completion("refresh")
                        /\ L[5] = <<"op", "call">>
                        /\ L[6] = <<"op", "401">>
                /\ (L[i] = <<"op", "call">> /\ i > 1)
                     => \E c \in {"refresh", "relogin"} :
                           L[i - 1] \in Completion(c) /\ L[i - 2] = <<c, "call">>
           /\ (task[t].ctx = "relogin" /\ task[t].pc = "wait")
                => /\ task[t].req.url = LoginUrl
                   /\ task[t].req.body = [username |-> username,
                                          password |-> password]
           /\ (task[t].ctx = "refresh" /\ task[t].pc = "wait")
                => task[t].req.url = RefreshUrl

C5_Witness ==
    \E t \in Tasks :
        LET L == LoopEvents(task[t].log)
        IN /\ Len(L) >= 9
           /\ L[4] = <<"refresh", "fail">>
           /\ L[7] = <<"relogin", "call">>
           /\ L[9] = <<"op", "call">>


\* ------------------------------------------------------------------------
\* Properties of the entity caches
\* ------------------------------------------------------------------------

\* the operation of task t was called after a get of the same entity had
\* returned, with no fetch of that entity in between
SecondGet(t) == task[t].expect # NoVal

\* the same object: equal, and not an array Object.values has just built
Identical(a, b) == a = b /\ a.type # "values"

\* C6: for every entity kind, a get(id) that follows a completed get(id)
\* with no fetch of the entity in between sends no request, does not throw
\* and returns the object the first get returned
C6_SecondGetIsCached ==
    \A t \in Tasks :
        SecondGet(t)
          => /\ Count(task[t].log, <<"op", "request">>) = 0
             /\ task[t].pc = "idle"
             /\ task[t].result.st = "ok"
             /\ Identical(task[t].result.val, task[t].expect)

\* the part of C6 that the code keeps: the six caches that are maps
C6_SecondGetIsCachedInMaps ==
    \A t \in Tasks :
        (SecondGet(t) /\ task[t].op.kind \in MapKinds)
          => /\ Count(task[t].log, <<"op", "request">>) = 0
             /\ task[t].pc = "idle"
             /\ task[t].result.st = "ok"
             /\ Identical(task[t].result.val, task[t].expect)

\* C7: a fetch(id) sends one request whatever the cache holds, and when the
\* body has been read the cache entry of the id is the value received (for
\* the subject instances: the record built from the list received) and the
\* fetch returns the value received
C7_FetchOverwrites ==
    /\ [](\A t \in Tasks :
            (task[t].op.fn = "fetch" /\ ~task[t].wrapped)
               => Count(task[t].log, <<"op", "request">>) = 1)
    /\ [][\A t \in Tasks :
            (/\ task[t].op.fn = "fetch"
             /\ task[t].ctx = "op"
             /\ task[t].pc = "json"
             /\ task'[t].pc # "json")
               => /\ task'[t].result = Ok(task[t].resp.body)
                  /\ task[t].op.kind \in MapKinds
                       => cache'[task[t].op.kind][task[t].op.id] = task[t].resp.body
                  /\ task[t].op.kind = "subjectInstances"
                       => subjectInstances' = listToRecord(task[t].resp.body)]_vars

C7_Witness ==
    \E t \in Tasks :
        /\ task[t].op.fn = "fetch"
        /\ task[t].op.kind \in MapKinds
        /\ task[t].pc = "idle"
        /\ task[t].result.st = "ok"
        /\ task[t].before \notin {Undefined, task[t].result.val}
        /\ cache[task[t].op.kind][task[t].op.id] = task[t].result.val

\* ------------------------------------------------------------------------
\* Properties of the request pipeline
\* ------------------------------------------------------------------------

\* task t receives the response to its request in this step
Received(t) == task[t].pc = "wait" /\ task'[t].pc = "resumed"

\* the response carries a refresh-token cookie
HasRefreshCookie(r) ==
    r.status # 0 /\ "refresh-token" \in DOMAIN parseCookies(r.cookies)

\* C8: whatever the status of a response, a refresh-token cookie it
\* carries becomes the stored refresh token
C8_CookieStoredAfterEveryResponse ==
    [][\A t \in Tasks :
          (Received(t) /\ HasRefreshCookie(task'[t].resp))
             => refreshToken' = parseCookies(task'[t].resp.cookies)["refresh-token"]]_vars

\* the part of C8 that the code keeps: 2xx responses
C8_CookieStoredAfterSuccess ==
    [][\A t \in Tasks :
          (Received(t) /\ HasRefreshCookie(task'[t].resp)
              /\ ResponseOk(task'[t].resp))
             => refreshToken' = parseCookies(task'[t].resp.cookies)["refresh-token"]]_vars

\* C9: a response without a refresh-token cookie leaves the stored refresh
\* token as it is; receiving a response changes neither the access token
\* nor the username nor the password; the access token is written only by
\* fetchAccessToken and refreshAccessToken (cleared when they send their
\* request, set when they have read the body)
C9_ResponseFrame ==
    [][/\ \A t \in Tasks :
            Received(t)
              => /\ ~HasRefreshCookie(task'[t].resp) => refreshToken' = refreshToken
                 /\ accessToken' = accessToken
                 /\ username' = username
                 /\ password' = password
       /\ accessToken' # accessToken
            => \E t \in Tasks :
                  \/ /\ task[t].pc # "wait"
                     /\ task'[t].pc = "wait"
                     /\ task'[t].req.url \in {LoginUrl, RefreshUrl}
                     /\ accessToken' = Null
                  \/ /\ task[t].pc = "json"
                     /\ task[t].ctx \in {"login", "prelogin", "relogin", "refresh"}
                     /\ accessToken' = task[t].resp.body.accessToken]_vars

C9_Witness ==
    \E t \in Tasks :
        /\ task[t].pc = "resumed"
        /\ task[t].resp.status = 200
        /\ task[t].resp.cookies = <<Cookie("session", "s")>>
        /\ refreshToken \in RefreshTokens
        /\ accessToken \in AccessTokens

\* C10: a request is sent with an Authorization header exactly if an access
\* token is stored when it is sent, and with a Cookie header exactly if a
\* refresh token is stored then, each carrying the stored value
C10_SessionHeaders ==
    [][\A t \in Tasks :
          (task[t].pc # "wait" /\ task'[t].pc = "wait")
             => /\ task'[t].req.method \in {"GET", "POST"}
                /\ task'[t].req.Authorization =
                      (IF accessToken' # Null THEN <<"Bearer", accessToken'>> ELSE << >>)
                /\ task'[t].req.Cookie =
                      (IF refreshToken' # Null THEN <<"refresh-token", refreshToken'>>
                       ELSE << >>)]_vars

C10_Witness ==
    \E t \in Tasks :
        /\ task[t].pc = "wait"
        /\ task[t].req.method = "GET"
        /\ task[t].req.Authorization = <<"Bearer", accessToken>>
        /\ task[t].req.Cookie = <<"refresh-token", refreshToken>>
        /\ accessToken # Null
        /\ refreshToken # Null

\* task t sends a request in this step
Sends(t) == task[t].pc # "wait" /\ task'[t].pc = "wait"

\* C11 as stated: a refresh token that is held stays held, and every request
\* sent while it is held carries it as the Cookie header, the login request
\* and the refresh-token request included
C11_RefreshTokenKeptAndSent ==
    [][refreshToken # Null
         => /\ refreshToken' # Null
            /\ \A t \in Tasks :
                  Sends(t) => task'[t].req.Cookie = <<"refresh-token", refreshToken>>]_vars

\* C11 amended: a refresh token that is held is dropped only by
\* fetchAccessToken, which clears it before it sends the login request, so
\* the login request carries no Cookie header; every other request,
\* the refresh-token request of the recovery path included, carries the
\* token held and leaves it held
C11_RefreshTokenKeptUntilLogin ==
    [][refreshToken # Null
         => /\ refreshToken' = Null
                  => \E t \in Tasks : Sends(t) /\ task'[t].req.url = LoginUrl
            /\ \A t \in Tasks :
                  Sends(t)
                    => IF task'[t].req.url = LoginUrl
                         THEN /\ task'[t].req.Cookie = << >>
                              /\ refreshToken' = Null
                         ELSE /\ task'[t].req.Cookie = <<"refresh-token", refreshToken>>
                              /\ refreshToken' = refreshToken]_vars

C11_Witness ==
    \E t \in Tasks :
        /\ task[t].pc = "wait"
        /\ task[t].ctx = "refresh"
        /\ task[t].req.url = RefreshUrl
        /\ refreshToken \in RefreshTokens
        /\ task[t].req.Cookie = <<"refresh-token", refreshToken>>

\* ------------------------------------------------------------------------
\* Properties of login() and fetchAccessToken()
\* ------------------------------------------------------------------------

\* task t is inside the interactive login() and takes a step
LoginStep(t) == task[t].ctx = "login" /\ task'[t] # task[t]

\* the login request of task t has failed and login() has not handled it yet
LoginFailed(t) == task[t].pc = "resumed" /\ task[t].threw # NoErr

\* login() returns only from a login request that succeeded, and the choice
\* offered after a failure either prompts again or throws the error
LoginReturnsOnSuccess(t) ==
    /\ (task'[t].ctx # "login" /\ task'[t].result.st # "err")
          => task[t].pc = "json" /\ ResponseOk(task[t].resp)
    /\ task[t].pc = "errprompt"
          => \/ task'[t].pc = "prompt" /\ task'[t].ctx = "login"
             \/ task'[t].result = Thrown(task[t].threw)

LoginCtxs == {"login", "prelogin", "relogin"}

\* C14: when the login request has succeeded the stored username and
\* password become the ones sent in it, and when its body has been read the
\* access token becomes the accessToken of the body; the stored username and
\* password change in no other step, so a failed login leaves them alone
C14_LoginStoresSession ==
    [][/\ \A t \in Tasks :
            (task[t].ctx \in LoginCtxs /\ task'[t] # task[t])
              => /\ task[t].pc = "wait"
                       => /\ task[t].req.url = LoginUrl
                          /\ task[t].req.body = task[t].sent
                          /\ task'[t].sent = task[t].sent
                 /\ (task[t].pc = "resumed" /\ task[t].threw = NoErr)
                       => /\ username' = task[t].sent.username
                          /\ password' = task[t].sent.password
                          /\ task'[t].pc = "json"
                 /\ task[t].pc = "json"
                       => accessToken' = task[t].resp.body.accessToken
                 /\ (task[t].pc = "resumed" /\ task[t].threw # NoErr)
                       => username' = username /\ password' = password
       /\ (username' # username \/ password' # password)
            => \E t \in Tasks :
                  /\ task[t].ctx \in LoginCtxs
                  /\ task[t].pc = "resumed"
                  /\ ResponseOk(task[t].resp)]_vars

C14_Witness ==
    \E t \in Tasks :
        /\ task[t].ctx = "op"
        /\ task[t].given
        /\ username = "alice"
        /\ password = "pw"
        /\ accessToken \in AccessTokens
        /\ Count(task[t].log, <<"relogin", "ok">>) = 1

\* ------------------------------------------------------------------------
\* Properties of concurrent calls
\* ------------------------------------------------------------------------

\* no request is in flight
Quiescent == \A t \in Tasks : task[t].pc # "wait"

\* C12: once all requests in flight have resolved, the stored refresh token
\* is the one the server issued last, whatever the order in which the
\* responses of concurrent requests resolved
C12_RefreshTokenInSync ==
    (Quiescent /\ issued # Null) => refreshToken = issued

\* the part of C12 that the code keeps: entity requests that are answered
\* one after the other
C12_RefreshTokenInSyncInSequence ==
    issued # Null => refreshToken = issued

\* tasks t and u run, or have run, fetch<Entity>(id) on the same entity,
\* called directly
FetchSame(t, u) ==
    /\ t # u
    /\ task[t].op.fn = "fetch"
    /\ task[u].op = task[t].op
    /\ task[t].op.kind \in MapKinds
    /\ ~task[t].wrapped /\ ~task[u].wrapped

\* fetch<Entity>(id) of task t resolves in this step
FetchResolves(t) ==
    task[t].pc = "json" /\ task[t].ctx = "op" /\ task'[t].pc = "idle"

\* C15: of two fetch calls for the same id each sends a request of its own,
\* and when the second of them resolves the cache entry becomes the body of
\* its response, an object other than the one the first call stored and
\* returned, whichever of the two was called first
C15_LastFetchWins ==
    [][\A t, u \in Tasks :
          FetchSame(t, u)
            => /\ Sends(t) => /\ task'[t].req.method = "GET"
                               /\ task'[t].req.url = UrlOf(task[t].op)
               /\ task[t].pc # "idle" => Count(task[t].log, <<"op", "request">>) = 1
               /\ (FetchResolves(t) /\ task[u].pc = "idle" /\ task[u].result.st = "ok")
                     => /\ cache'[task[t].op.kind][task[t].op.id] = task[t].resp.body
                        /\ task'[t].result = Ok(task[t].resp.body)
                        /\ task[t].resp.body # task[u].result.val
                        /\ Count(task'[t].log, <<"op", "request">>) = 1
                        /\ Count(task[u].log, <<"op", "request">>) = 1]_vars

\* both calls were in flight at once (neither found the other's value in the
\* cache), and the one that was called first resolved last and won
C15_Witness ==
    \E t, u \in Tasks :
        /\ FetchSame(t, u)
        /\ task[t].pc = "idle" /\ task[u].pc = "idle"
        /\ task[t].result.st = "ok" /\ task[u].result.st = "ok"
        /\ task[t].before = Undefined /\ task[u].before = Undefined
        /\ task[t].seq < task[u].seq
        /\ task[t].result.val # task[u].result.val
        /\ cache[task[t].op.kind][task[t].op.id] = task[t].result.val

\* the wrapped operation of task t has failed with 401 and withReauth has
\* not handled the error yet
Rejected(t) ==
    /\ task[t].wrapped
    /\ task[t].ctx = "op"
    /\ task[t].pc = "resumed"
    /\ IsUnauthorized(task[t].threw)

\* C16: a withReauth call whose operation fails with 401 sends a
\* refresh-token request of its own the first time, and a login request of
\* its own the second time, whatever another withReauth call is doing, also
\* when that one has a recovery request in flight
C16_RecoveryNotSingleFlight ==
    [][\A t \in Tasks :
          (Rejected(t) /\ task'[t] # task[t])
            => /\ task[t].retries = 0
                     => /\ Sends(t)
                        /\ task'[t].ctx = "refresh"
                        /\ task'[t].req.url = RefreshUrl
               /\ (task[t].retries = 1 /\ Truthy(username) /\ Truthy(password))
                     => /\ Sends(t)
                        /\ task'[t].ctx = "relogin"
                        /\ task'[t].req.url = LoginUrl]_vars

\* two login requests of the recovery path are in flight at once, each
\* after a refresh-token request of its own
C16_Witness ==
    \A t \in Tasks :
        /\ task[t].wrapped
        /\ task[t].pc = "wait"
        /\ task[t].ctx = "relogin"
        /\ task[t].req.url = LoginUrl
        /\ Count(task[t].log, <<"refresh", "call">>) = 1
        /\ Count(task[t].log, <<"relogin", "call">>) = 1

\* ------------------------------------------------------------------------
\* C17: no eviction
\* ------------------------------------------------------------------------

\* the step loses the entry of id in a map
Lost(kind, id) ==
    cache[kind][id] # Undefined /\ cache'[kind][id] = Undefined

\* the step in which the submit command, its upload done, deletes an entry
SubmitDeletes(t) ==
    /\ task[t].cmd = "submit" /\ task[t].ctx = "submit"
    /\ task[t].pc = "json" /\ task'[t].pc = "idle"

\* the step in which the timer callback of the panel runs
TimerFires == panel.pc = "timer" /\ panel'.pc # "timer"

\* the entries the two collaborators may delete: the exercise of the upload;
\* the exercise the panel shows, the statuses of its submissions and the
\* reports of their evaluations
SubmitLoses(kind, id) ==
    \E t \in Tasks : /\ SubmitDeletes(t)
                     /\ kind = "exercises"
                     /\ id = task[t].exercise.assignedExerciseId

TimerLoses(kind, id) ==
    LET subs == panel.exercise.submissions
    IN /\ TimerFires
       /\ panel.exerciseId = <<panel.exercise.assignedExerciseId>>
       /\ \/ kind = "exercises" /\ id = panel.exercise.assignedExerciseId
          \/ \E i \in DOMAIN subs :
                \/ kind = "submissionStatuses" /\ id = subs[i].submissionId
                \/ /\ kind = "reports"
                   /\ \E j \in DOMAIN subs[i].evaluations :
                         id = subs[i].evaluations[j]

\* the step loses the subject instance id
InstanceLost(id) ==
    /\ subjectInstances # NullRecord
    /\ id \in DOMAIN subjectInstances.items
    /\ \/ subjectInstances' = NullRecord
       \/ id \notin DOMAIN subjectInstances'.items

\* the step in which fetchSubjectInstances stores the list it has fetched
InstancesReplaced ==
    \E t \in Tasks :
        /\ task[t].op.kind \in {"subjectInstance", "subjectInstances"}
        /\ task[t].ctx = "op" /\ task[t].pc = "json"
        /\ subjectInstances' = listToRecord(task[t].resp.body)

OnlyCollaboratorsDelete ==
    \A kind \in MapKinds, id \in Ids :
        Lost(kind, id) => SubmitLoses(kind, id) \/ TimerLoses(kind, id)

\* C17 as stated: an entry that is present in a cache stays present through
\* every operation of the client, the subject instances included; it
\* disappears only when the submit command or the timer of the panel
\* deletes it.
C17_NoEviction ==
    [][/\ OnlyCollaboratorsDelete
       /\ \A id \in Ids : ~InstanceLost(id)]_vars

\* C17 amended: an entry of one of the six maps disappears only when the
\* submit command or the timer of the panel deletes it; a subject instance
\* disappears only when fetchSubjectInstances replaces the record by the
\* list it has fetched.
C17_NoEvictionInMaps ==
    [][/\ OnlyCollaboratorsDelete
       /\ \A id \in Ids : InstanceLost(id) => InstancesReplaced]_vars

\* a fetch has overwritten an entry that was present: the entry is still
\* present, with the value fetched
C17_Witness ==
    \E t \in Tasks :
        /\ task[t].pc = "idle" /\ task[t].op.fn = "fetch"
        /\ task[t].op.kind \in MapKinds
        /\ task[t].result.st = "ok"
        /\ task[t].before \notin {Undefined, NoVal, task[t].result.val}
        /\ cache[task[t].op.kind][task[t].op.id] = task[t].result.val

\* ------------------------------------------------------------------------
\* C18: the submit command deletes the cached exercise
\* ------------------------------------------------------------------------

\* the step is one of the submit command that task t runs
SubmitActs(t) == task'[t].cmd = "submit" /\ task'[t] # task[t]

\* the step leaves every cache entry but that of exercise id as it is
OthersUnchanged(id) ==
    /\ \A kind \in MapKinds, i \in Ids :
          (kind # "exercises" \/ i # id) => cache'[kind][i] = cache[kind][i]
    /\ subjectInstances' = subjectInstances

GetExercise(id) == [fn |-> "get", kind |-> "exercises", id |-> id]

\* task t calls getExercise, at once or after withReauth has logged in or
\* refreshed, and finds no entry
GetExerciseMisses(t) ==
    /\ OpCalls(task'[t].log) = 1 + (IF task[t].pc = "idle" THEN 0
                                    ELSE OpCalls(task[t].log))
    /\ task'[t].op.fn = "get" /\ task'[t].op.kind = "exercises"
    /\ cache["exercises"][task'[t].op.id] = Undefined

\* the getExercise of task t has read the body of the response
GetExerciseReads(t) ==
    /\ task[t].op.fn = "get" /\ task[t].op.kind = "exercises"
    /\ task[t].ctx = "op" /\ task[t].pc = "json"
    /\ task'[t] # task[t]

\* C18: the submit command works on the selected exercise; when its upload
\* has succeeded the cached entry of that exercise is deleted, and no step
\* of the command changes another entry of any cache. A getExercise that
\* finds no entry sends a GET for the exercise and returns the body of the
\* response, which becomes the entry.
C18_SubmitDeletesExercise ==
    [][\A t \in Tasks :
         /\ (SubmitActs(t) /\ task[t].pc = "idle")
               => task'[t].op = GetExercise(selected[1])
         /\ SubmitActs(t) => OthersUnchanged(task'[t].op.id)
         /\ SubmitDeletes(t)
               => /\ task[t].exercise.assignedExerciseId = task[t].op.id
                  /\ cache'["exercises"][task[t].op.id] = Undefined
                  /\ task'[t].result.st = "ok"
         /\ GetExerciseMisses(t)
               => /\ task'[t].pc = "wait"
                  /\ task'[t].req.method = "GET"
                  /\ task'[t].req.url = UrlOf(task'[t].op)
         /\ GetExerciseReads(t)
               => /\ cache'["exercises"][task[t].op.id] = task[t].resp.body
                  /\ IF task[t].cmd = "submit"
                       THEN task'[t].exercise = task[t].resp.body
                       ELSE task'[t].result = Ok(task[t].resp.body)]_vars

\* the upload has succeeded: the entry of the exercise is gone and another
\* entry is still there
C18_Witness ==
    \E t \in Tasks :
        /\ task[t].cmd = "submit" /\ task[t].pc = "idle"
        /\ task[t].result.st = "ok"
        /\ Count(task[t].log, <<"submit", "ok">>) = 1
        /\ cache["exercises"][task[t].op.id] = Undefined
        /\ \E kind \in MapKinds, i \in Ids : cache[kind][i] # Undefined

\* ------------------------------------------------------------------------
\* C19: a submission is not retried
\* ------------------------------------------------------------------------

\* the upload of task t has failed and the command goes on
SubmitFails(t) ==
    /\ task[t].cmd = "submit" /\ task[t].ctx = "submit"
    /\ task[t].pc = "resumed" /\ task[t].threw # NoErr
    /\ task'[t] # task[t]

\* C19: the submit command sends at most one POST and neither a
\* refresh-token nor a login request; when the POST fails, with whatever
\* status, the command ends at once with the error of that request, sends
\* nothing more and leaves every cache as it is, the entry of the exercise
\* included.
C19_SubmitNotRetried ==
    [][\A t \in Tasks :
         /\ task'[t].cmd = "submit"
               => /\ Count(task'[t].log, <<"submit", "call">>) <= 1
                  /\ Count(task'[t].log, <<"refresh", "call">>) = 0
                  /\ Count(task'[t].log, <<"relogin", "call">>) = 0
                  /\ task'[t].pc \notin {"prompt", "errprompt"}
                  /\ task'[t].pc = "wait"
                       => \/ /\ task'[t].req.method = "GET"
                             /\ task'[t].req.url = UrlOf(task'[t].op)
                          \/ /\ task'[t].req.method = "POST"
                             /\ task'[t].req.url = SubmitUrl(task'[t].op.id)
         /\ SubmitFails(t)
               => /\ task'[t].pc = "idle"
                  /\ task'[t].req = NoReq
                  /\ task'[t].result = Thrown(task[t].threw)
                  /\ task[t].threw.status = task[t].resp.status
                  /\ task[t].threw.by = "submit"
                  /\ Count(task'[t].log, <<"submit", "call">>) = 1
                  /\ cache' = cache
                  /\ subjectInstances' = subjectInstances
                  /\ cache'["exercises"][task[t].op.id] = task[t].exercise]_vars

\* the upload was answered 401 and the command has ended with that error,
\* the entry of the exercise in place
C19_Witness ==
    \E t \in Tasks :
        /\ task[t].cmd = "submit" /\ task[t].pc = "idle"
        /\ task[t].result.st = "err"
        /\ task[t].result.err.by = "submit"
        /\ task[t].result.err.status = 401
        /\ Count(task[t].log, <<"submit", "call">>) = 1
        /\ cache["exercises"][task[t].op.id] = task[t].exercise

\* ------------------------------------------------------------------------
\* C20: the scheduled refresh
\* ------------------------------------------------------------------------

\* the timer fires while the panel shows the exercise of the update
RefreshFires ==
    TimerFires /\ panel.exerciseId = <<panel.exercise.assignedExerciseId>>

\* the status of submission sub that is cached, if any, is not finished
PendingInCache(sub) ==
    /\ cache["submissionStatuses"][sub.submissionId] # Undefined
    /\ ~cache["submissionStatuses"][sub.submissionId].finished

FinishedInCache(sub) ==
    /\ cache["submissionStatuses"][sub.submissionId] # Undefined
    /\ cache["submissionStatuses"][sub.submissionId].finished

\* what the refresh does to the entries of submission sub
RefreshedRight(sub) ==
    LET sid == sub.submissionId
        evals == {sub.evaluations[j] : j \in DOMAIN sub.evaluations}
    IN /\ PendingInCache(sub)
            => /\ cache'["submissionStatuses"][sid] = Undefined
               /\ \A e \in evals : cache'["reports"][e] = Undefined
       /\ FinishedInCache(sub)
            => /\ cache'["submissionStatuses"][sid] = cache["submissionStatuses"][sid]
               /\ \A e \in evals : cache'["reports"][e] = cache["reports"][e]

\* C20: when the timer of the panel fires while the panel shows the same
\* exercise, the cached status and the cached reports of every submission
\* whose cached status is not finished are deleted and those of every
\* submission whose cached status is finished are kept.
C20_RefreshDeletesPending ==
    [][RefreshFires
         => \A i \in DOMAIN panel.exercise.submissions :
               RefreshedRight(panel.exercise.submissions[i])]_vars

\* the same when the status of every submission of the exercise is cached;
\* the next update then starts
C20_RefreshDeletesPendingAllCached ==
    [][(/\ RefreshFires
        /\ \A i \in DOMAIN panel.exercise.submissions :
              cache["submissionStatuses"]
                   [panel.exercise.submissions[i].submissionId] # Undefined)
         => /\ \A i \in DOMAIN panel.exercise.submissions :
                  RefreshedRight(panel.exercise.submissions[i])
            /\ panel'.pc = "exercise"]_vars

\* a refresh with every status cached, one of them pending, has run
C20_AllCachedWitness ==
    /\ panel.pc = "exercise" /\ panel.updates = 2 /\ ~panel.timerError
    /\ panel.exercise # NoVal
    /\ \E i \in DOMAIN panel.exercise.submissions :
          LET sub == panel.exercise.submissions[i]
          IN /\ cache["submissionStatuses"][sub.submissionId] # Undefined
             /\ cache["submissionStatuses"][sub.submissionId].finished

\* ------------------------------------------------------------------------
\* C21: an abandoned panel stops polling
\* ------------------------------------------------------------------------

\* the panel has been closed, or shows another exercise than the one the
\* update that set the timer was for
Abandoned ==
    \/ ~panel.open
    \/ panel.exerciseId # <<panel.exercise.assignedExerciseId>>

\* C21: when the timer fires for a panel that has been closed or switched
\* to another exercise, no cache entry is deleted, no update starts and no
\* request is sent.
C21_AbandonedStopsPolling ==
    [][(TimerFires /\ Abandoned)
         => /\ cache' = cache
            /\ panel'.pc = "idle"
            /\ panel'.updates = panel.updates
            /\ \A t \in Tasks : task'[t] = task[t]]_vars

\* ------------------------------------------------------------------------
\* C22: a locked assignment has no children
\* ------------------------------------------------------------------------

\* task t calls the operation that withReauth wraps
CallsOp(t) ==
    OpCalls(task'[t].log) = 1 + (IF task[t].pc = "idle" THEN 0
                                 ELSE OpCalls(task[t].log))

\* the call of task t settles
Settles(t) == task'[t] # task[t] /\ task'[t].pc = "idle"

Decodes(t) ==
    /\ task[t].pc = "json"
    /\ task[t].ctx = "op"
    /\ task[t].op.kind \in DecodedKinds
    /\ task'[t] # task[t]

\* the list was returned and is in the cache, with all its items
ReturnedAndCached(t) ==
    LET o == task[t].op
        body == task[t].resp.body
    IN /\ task'[t].result.st = "ok"
       /\ cache'[o.kind][o.id] # Undefined
       /\ cache'[o.kind][o.id].tag = body.tag
       /\ Len(cache'[o.kind][o.id].items) = Len(body.items)
       /\ task'[t].result.val = cache'[o.kind][o.id]

\* C23: whatever the contents of the items are (malformed base64 and
\* malformed JSON included), fetchReports and fetchSubmissionFiles return
\* the list they received and put it into the cache
C23_MalformedNeverFails ==
    [][\A t \in Tasks : Decodes(t) => ReturnedAndCached(t)]_vars

\* ------------------------------------------------------------------------
\* C24
\* ------------------------------------------------------------------------

\* the two payloads of the examples as they are on the wire
HelloBase64 == Text(<<"a", "G", "V", "s", "b", "G", "8", "=">>)
ReportJsonBase64 ==
    Text(<<"e", "y", "J", "y", "Z", "X", "B", "v", "c", "n", "R", "f", "d", "H", "l", "w", "Z", "S", "I", "6", "I", "l", "g", "i", "L", "C", "J", "0", "Z", "X", "N", "0", "c", "y", "I", "6", "W", "1", "1", "9">>)

\* the value of the member of an object, JNull when there is none
MemberValue(obj, key) ==
    LET hits == {i \in DOMAIN obj.members : obj.members[i].key = key}
    IN IF hits = {} THEN JNull ELSE obj.members[CHOOSE i \in hits : TRUE].val

\* the item that fetchReports made of the item raw it received
ContentRight(raw, item) ==
    LET text == decodeContent(raw.content.chars).val
        json == JSONparse(text)
    IN /\ item.filename = raw.filename
       /\ json.ok => item.content = json.val
       /\ ~json.ok => item.content.t = "str" /\ item.content.chars = text
       /\ raw.content.chars = HelloBase64 =>
              item.content.t = "str" /\ item.content.chars = Hello
       /\ raw.content.chars = ReportJsonBase64 =>
              /\ item.content.t = "obj"
              /\ MemberValue(item.content, Text(<<"r", "e", "p", "o", "r", "t", "_", "t", "y", "p", "e">>)) = JStr(Text(<<"X">>))
              /\ MemberValue(item.content, Text(<<"t", "e", "s", "t", "s">>)) = JArr(<< >>)

\* C24: every item of a list that fetchReports returns holds the parsed
\* value when its decoded payload (base64, then UTF-8) is JSON and the
\* decoded text otherwise; base64("hello") gives the text "hello" and the
\* base64 of {"report_type":"X","tests":[]} an object whose report_type is "X"
C24_ReportContent ==
    [][\A t \in Tasks :
          (Decodes(t) /\ task[t].op.kind = "reports" /\ task'[t].result.st = "ok")
            => LET raw == task[t].resp.body.items
                   items == task'[t].result.val.items
               IN /\ DOMAIN items = DOMAIN raw
                  /\ \A i \in DOMAIN raw : ContentRight(raw[i], items[i])]_vars

\* a list of reports was returned and cached of which one item is the
\* object of the example and another one the text "hello"
C24_Witness ==
    \E t \in Tasks, id \in Ids :
        /\ task[t].result.st = "ok"
        /\ task[t].op.kind = "reports"
        /\ cache["reports"][id] = task[t].result.val
        /\ \E i, j \in DOMAIN cache["reports"][id].items :
              LET a == cache["reports"][id].items[i].content
                  b == cache["reports"][id].items[j].content
              IN /\ a.t = "obj" /\ MemberValue(a, Text(<<"r", "e", "p", "o", "r", "t", "_", "t", "y", "p", "e">>)) = JStr(Text(<<"X">>))
                 /\ b.t = "str" /\ b.chars = Hello

\* ------------------------------------------------------------------------
\* C25
\* ------------------------------------------------------------------------

\* the text of h between its first '=' and the first ';' (or the end);
\* nothing for a header that has no '='
Between(h) ==
    LET eqs == {i \in DOMAIN h : h[i] = Code("=")}
        eq == CHOOSE i \in eqs : \A j \in eqs : i <= j
        semi == {i \in DOMAIN h : h[i] = Code(";")}
        end == IF semi = {} THEN Len(h) + 1 ELSE CHOOSE i \in semi : \A j \in semi : i <= j
    IN IF eqs = {} THEN << >> ELSE [i \in 1..(end - eq - 1) |-> h[eq + i]]

\* h sets the cookie refresh-token: refresh-token=<value>..., or the name
\* alone
SetsRefreshToken(h) ==
    \/ h = RefreshTokenName
    \/ /\ Len(h) > Len(RefreshTokenName)
       /\ SubSeq(h, 1, Len(RefreshTokenName) + 1) = RefreshTokenName \o <<Code("=")>>

\* the last header of hs that sets the refresh token
LastRefreshToken(hs) ==
    hs[CHOOSE i \in DOMAIN hs :
          SetsRefreshToken(hs[i]) /\ \A j \in DOMAIN hs : SetsRefreshToken(hs[j]) => j <= i]

\* get() of task t receives a 2xx response
Receives(t) == task[t].pc = "wait" /\ task'[t].pc = "idle" /\ task'[t].result.st = "ok"

ExampleHeader == Text(<<"r", "e", "f", "r", "e", "s", "h", "-", "t", "o", "k", "e", "n", "=", "a", "b", "c", "1", "2", "3", ";", " ", "P", "a", "t", "h", "=", "/">>)

\* C25: the value of a Set-Cookie header refresh-token=<value>[; ...] of a
\* 2xx response, the text between its first '=' and its first ';', becomes
\* the stored refresh token ("abc123" for 'refresh-token=abc123; Path=/';
\* with several such headers the last one counts), and a request is sent
\* with the header Cookie: refresh-token=<stored token>
C25_CookieExtractedAndSent ==
    [][\A t \in Tasks :
          /\ (Receives(t) /\ \E i \in DOMAIN task'[t].resp.cookies :
                                SetsRefreshToken(task'[t].resp.cookies[i]))
                => LET h == LastRefreshToken(task'[t].resp.cookies)
                   IN /\ refreshToken' = Between(h)
                      /\ h = ExampleHeader => refreshToken' = Text(<<"a", "b", "c", "1", "2", "3">>)
          /\ (task[t].pc = "idle" /\ task'[t].pc = "wait" /\ refreshToken # << >>)
                => /\ task'[t].req.Cookie = Text(<<"r", "e", "f", "r", "e", "s", "h", "-", "t", "o", "k", "e", "n", "=">>) \o refreshToken
                   /\ refreshToken = Text(<<"a", "b", "c", "1", "2", "3">>) =>
                          task'[t].req.Cookie = Text(<<"r", "e", "f", "r", "e", "s", "h", "-", "t", "o", "k", "e", "n", "=", "a", "b", "c", "1", "2", "3">>)]_vars

\* the second request carries the token that the header of the example set
C25_Witness ==
    \E t \in Tasks :
        /\ task[t].pc = "wait"
        /\ calls[t] = 2
        /\ refreshToken = Text(<<"a", "b", "c", "1", "2", "3">>)
        /\ task[t].req.Cookie = Text(<<"r", "e", "f", "r", "e", "s", "h", "-", "t", "o", "k", "e", "n", "=", "a", "b", "c", "1", "2", "3">>)

\* ------------------------------------------------------------------------
\* C26
\* ------------------------------------------------------------------------

\* get() of task t throws the ApiError of a non-2xx response
ThrowsApiError(t) ==
    /\ task[t].pc = "wait"
    /\ task'[t].pc = "idle"
    /\ task'[t].result.st = "err"
    /\ task'[t].result.err.api

StatusDigits(status) == IF status = 401 THEN Text(<<"4", "0", "1">>) ELSE Text(<<"5", "0", "0">>)

\* the body of r is a JSON object with a message field
JsonWithMessage(r) ==
    /\ ~r.unreadable
    /\ JSONparse(r.text).ok
    /\ JSONparse(r.text).val.t = "obj"
    /\ MemberValue(JSONparse(r.text).val, MessageKey) # JNull

\* the detail as the sentence has it: the message field of a JSON body,
\* else the raw text, else the status text
DetailAsStated(r) ==
    IF JsonWithMessage(r) THEN String(MemberValue(JSONparse(r.text).val, MessageKey))
    ELSE IF ~r.unreadable /\ r.text # << >> THEN r.text
    ELSE r.statusText

\* C26 as stated: the ApiError of a non-2xx response carries the status and
\* the status text, and its message is 'HTTP <status>: <detail>', the detail
\* being the message field of the JSON body if present, else the raw
\* response text, else the status text
C26_MessageHasDetail ==
    [][\A t \in Tasks :
          ThrowsApiError(t)
            => LET r == task'[t].resp
                   e == task'[t].result.err
               IN /\ e.status = r.status
                  /\ e.statusMessage = r.statusText
                  /\ e.message = HttpPrefix \o StatusDigits(r.status) \o ColonSpace
                                    \o DetailAsStated(r)]_vars

BadCredentialsBody == Text(<<"{", "\"", "m", "e", "s", "s", "a", "g", "e", "\"", ":", "\"", "B", "a", "d", " ", "c", "r", "e", "d", "e", "n", "t", "i", "a", "l", "s", "\"", "}">>)

\* the detail the code finds: the message field only of a body that is
\* announced as exactly application/json, the raw text only of a body that
\* is announced as anything else
DetailFound(r) ==
    IF r.unreadable THEN << >>
    ELSE IF r.contentType # ApplicationJson THEN r.text
    ELSE IF JsonWithMessage(r)
      THEN String(MemberValue(JSONparse(r.text).val, MessageKey))
    ELSE << >>

\* the body the error carries
DataFound(r) ==
    IF r.unreadable THEN JNull
    ELSE IF r.contentType # ApplicationJson THEN JStr(r.text)
    ELSE IF JSONparse(r.text).ok THEN JSONparse(r.text).val
    ELSE JNull

\* C26, amended: the ApiError carries the status, the status text and the
\* body (parsed if announced as application/json, else as text, null if it
\* cannot be read or parsed); its message is 'HTTP <status>: <detail>' with
\* the non-empty message field of an application/json object, or the
\* non-empty text of a body of another content type, or else the non-empty
\* status text, and 'HTTP <status>' when there is none of these
C26_MessageByContentType ==
    [][\A t \in Tasks :
          ThrowsApiError(t)
            => LET r == task'[t].resp
                   e == task'[t].result.err
                   head == HttpPrefix \o StatusDigits(r.status)
               IN /\ e.status = r.status
                  /\ e.statusMessage = r.statusText
                  /\ e.response = DataFound(r)
                  /\ DetailFound(r) # << >>
                        => e.message = head \o ColonSpace \o DetailFound(r)
                  /\ DetailFound(r) = << >> /\ r.statusText # << >>
                        => e.message = head \o ColonSpace \o r.statusText
                  /\ DetailFound(r) = << >> /\ r.statusText = << >>
                        => e.message = head
                  /\ (r.status = 401 /\ r.contentType = ApplicationJson
                        /\ ~r.unreadable /\ r.text = BadCredentialsBody)
                        => e.message = Text(<<"H", "T", "T", "P", " ", "4", "0", "1", ":", " ", "B", "a", "d", " ", "c", "r", "e", "d", "e", "n", "t", "i", "a", "l", "s">>)]_vars

\* the message with the message field of the body has been thrown
C26_Witness ==
    \E t \in Tasks :
        /\ task[t].result.st = "err"
        /\ task[t].result.err.api
        /\ task[t].result.err.message = Text(<<"H", "T", "T", "P", " ", "4", "0", "1", ":", " ", "B", "a", "d", " ", "c", "r", "e", "d", "e", "n", "t", "i", "a", "l", "s">>)
        /\ calls[t] = 2

\* ------------------------------------------------------------------------
\* C27
\* ------------------------------------------------------------------------

\* the lines of a body, each without the CRLF that ends it; what follows the
\* last CRLF is a line of its own
RECURSIVE LinesOf(_)
LinesOf(body) ==
    LET ends == {i \in 1..(Len(body) - 1) : body[i] = 13 /\ body[i + 1] = 10}
        first == CHOOSE i \in ends : \A j \in ends : i <= j
    IN IF ends = {} THEN <<body>>
       ELSE <<SubSeq(body, 1, first - 1)>> \o LinesOf(SubSeq(body, first + 2, Len(body)))

\* the lines from..to of a body, put together again
RECURSIVE Joined(_, _, _)
Joined(lines, from, to) ==
    IF from > to THEN << >>
    ELSE IF from = to THEN lines[from]
    ELSE lines[from] \o CRLF \o Joined(lines, from + 1, to)

\* task t has sent the request of submitFile(exerciseId, filename, content)
Uploads(t) == task[t].pc = "idle" /\ task'[t].pc = "wait" /\ task'[t].ctx = "submit"

\* the body is the three parts, and nothing else, for this file
ThreeParts(body, filename, content) ==
    LET lines == LinesOf(body)
        n == Len(lines) - 1
        delimiter == Dashes \o Boundary
    IN /\ n >= 14
       /\ lines[n + 1] = << >>
       /\ {i \in 1..n : lines[i] = delimiter} = {1, 5, 9}
       /\ {i \in 1..n : lines[i] = delimiter \o Dashes} = {n}
       /\ lines[2] = SubmissionNameLine
       /\ lines[3] = << >>
       /\ lines[4] = << >>
       /\ lines[6] = ConfirmedLine
       /\ lines[7] = << >>
       /\ lines[8] = FalseLine
       /\ lines[10] = FileLine \o <<34>> \o filename \o <<34>>
       /\ lines[11] = OctetStreamLine
       /\ lines[12] = << >>
       /\ Joined(lines, 13, n - 1) = content

\* a file name that JSON.stringify leaves as it is, in quotes
PlainName(filename) ==
    \A i \in DOMAIN filename : filename[i] >= 32 /\ filename[i] \notin {34, 92}

\* C27: the body submitFile sends consists of exactly three parts in this
\* order, the empty field submissionName, the field
\* post-deadline-submission-confirmed with the value false and the field
\* file with the file name, the content type application/octet-stream and
\* the content; every line it appends ends with CRLF and the last line is
\* the closing boundary
C27_ThreeParts ==
    [][\A t \in Tasks :
          Uploads(t) =>
            \E f \in Filenames, c \in FileContents :
                /\ task'[t].req.body = multipartBody(f, c)
                /\ PlainName(f) => ThreeParts(task'[t].req.body, f, c)]_vars

\* the content has no line that is a boundary line
NoBoundaryLine(content) ==
    \A i \in DOMAIN LinesOf(content) :
        LinesOf(content)[i] \notin {Dashes \o Boundary, Dashes \o Boundary \o Dashes}

\* the same for contents without a boundary line
C27_ThreePartsOfPlainContent ==
    [][\A t \in Tasks :
          Uploads(t) =>
            \E f \in Filenames, c \in FileContents :
                /\ task'[t].req.body = multipartBody(f, c)
                /\ (PlainName(f) /\ NoBoundaryLine(c))
                      => ThreeParts(task'[t].req.body, f, c)]_vars

\* ------------------------------------------------------------------------
\* C28
\* ------------------------------------------------------------------------

\* task t starts a call of withReauth
StartsWithReauth(t) == calls'[t] # calls[t] /\ task'[t].wrapped

\* withReauth of task t invokes the operation for the first time, after a
\* step of its own
InvokesAfterStep(t) ==
    /\ calls'[t] = calls[t]
    /\ task[t].wrapped
    /\ OpCalls(task[t].log) = 0
    /\ OpCalls(task'[t].log) = 1

\* the call of task t ends during the step that precedes the retry loop;
\* from the body of the login response withReauth goes on into the loop,
\* where the operation may return at once with a cached entity
EndsBeforeLoop(t) ==
    /\ task[t].wrapped
    /\ task[t].ctx \in {"login", "prelogin"}
    /\ task[t].pc \notin {"idle", "json"}
    /\ task'[t].pc = "idle"

\* C28: withReauth invokes the operation only after the authentication:
\* without a stored username or password it starts with the interactive
\* login, with both but without an access token it starts with one login
\* request with the stored credentials, and its first invocation of the
\* operation then follows the body of a login response that succeeded; when
\* the login before the loop throws, the call ends with that error, the
\* operation has not been invoked and no recovery request has been sent
C28_AuthenticationFirst ==
    [][\A t \in Tasks :
          /\ (StartsWithReauth(t) /\ (~Truthy(username) \/ ~Truthy(password)))
                => /\ task'[t].pc = "prompt"
                   /\ task'[t].ctx = "login"
                   /\ OpCalls(task'[t].log) = 0
          /\ (StartsWithReauth(t) /\ Truthy(username) /\ Truthy(password)
                 /\ ~Truthy(accessToken))
                => /\ task'[t].pc = "wait"
                   /\ task'[t].ctx = "prelogin"
                   /\ task'[t].req.url = LoginUrl
                   /\ task'[t].req.body = [username |-> username, password |-> password]
                   /\ OpCalls(task'[t].log) = 0
          /\ InvokesAfterStep(t)
                => /\ task[t].pc = "json"
                   /\ task[t].ctx \in {"login", "prelogin"}
                   /\ ResponseOk(task[t].resp)
                   /\ accessToken' = task[t].resp.body.accessToken
          /\ (task[t].wrapped /\ task[t].ctx = "prelogin" /\ task[t].pc = "resumed"
                 /\ task[t].threw # NoErr /\ task'[t] # task[t])
                => task'[t].pc = "idle"
          /\ EndsBeforeLoop(t)
                => /\ task[t].threw # NoErr
                   /\ task'[t].result = Thrown(task[t].threw)
                   /\ OpCalls(task'[t].log) = 0
                   /\ Recoveries(task'[t].log) = << >>
          /\ Count(task'[t].log, <<"prelogin", "call">>) <= 1]_vars

\* a call that found credentials but no access token has ended with the
\* error of its login request
C28_Witness ==
    \E t \in Tasks :
        /\ task[t].wrapped
        /\ task[t].pc = "idle"
        /\ task[t].result.st = "err"
        /\ task[t].result.err.by = "prelogin"
        /\ Count(task[t].log, <<"prelogin", "fail">>) = 1
        /\ OpCalls(task[t].log) = 0

\* ------------------------------------------------------------------------
\* C29
\* ------------------------------------------------------------------------

\* withReauth of task t invokes the operation again, after a recovery step
Reinvokes(t) ==
    /\ task[t].wrapped
    /\ task[t].ctx \in {"refresh", "relogin"}
    /\ OpCalls(task[t].log) >= 1
    /\ OpCalls(task'[t].log) = OpCalls(task[t].log) + 1

\* C29: when withReauth invokes the operation again after a recovery step,
\* an access token is held and the request of the operation carries an
\* Authorization header, also after a refresh-token or login request that
\* failed
C29_RetryHoldsAccessToken ==
    [][\A t \in Tasks :
          Reinvokes(t)
            => /\ Truthy(accessToken')
               /\ task'[t].pc = "wait"
                     => task'[t].req.Authorization = AuthorizationHeader(accessToken')
               /\ task'[t].pc = "wait" => task'[t].req.Authorization # << >>]_vars

\* the same after the recovery steps that succeeded
C29_RetryHoldsAccessTokenAfterSuccess ==
    [][\A t \in Tasks :
          (Reinvokes(t) /\ task[t].threw = NoErr)
            => /\ Truthy(accessToken')
               /\ task'[t].pc = "wait" => task'[t].req.Authorization # << >>]_vars

\* ------------------------------------------------------------------------
\* C30
\* ------------------------------------------------------------------------

\* task t sends the request of fetchAccessToken / of refreshAccessToken
SendsLogin(t) ==
    task[t].pc # "wait" /\ task'[t].pc = "wait" /\ task'[t].req.url = LoginUrl
SendsRefresh(t) ==
    task[t].pc # "wait" /\ task'[t].pc = "wait" /\ task'[t].req.url = RefreshUrl

\* the request of fetchAccessToken or refreshAccessToken fails, and the
\* caller of the function catches the error
AuthRequestFails(t) ==
    /\ task[t].pc = "wait"
    /\ task[t].req.url \in {LoginUrl, RefreshUrl}
    /\ task'[t].pc = "resumed"
    /\ task'[t].threw # NoErr
AuthFailureCaught(t) ==
    /\ task[t].pc = "resumed"
    /\ task[t].ctx \in LoginCtxs \cup {"refresh"}
    /\ task[t].threw # NoErr
    /\ task'[t] # task[t]

CredentialsUnchanged == username' = username /\ password' = password
TokensUnchanged == accessToken' = accessToken /\ refreshToken' = refreshToken

\* C30 as stated: a fetchAccessToken that fails leaves access token, refresh
\* token, username and password as they were before the attempt, and a
\* refreshAccessToken that fails leaves the access token as it was. Every
\* request can fail, and what is stored when it fails is what was stored
\* when it was sent: so sending the request must change none of them
C30_FailedLoginLeavesSession ==
    [][\A t \in Tasks :
          /\ SendsLogin(t) => CredentialsUnchanged /\ TokensUnchanged
          /\ SendsRefresh(t) => accessToken' = accessToken
          /\ AuthRequestFails(t) => CredentialsUnchanged /\ TokensUnchanged
          /\ AuthFailureCaught(t) => CredentialsUnchanged /\ TokensUnchanged]_vars

\* C30, amended: a login request that fails leaves the stored username and
\* password as they were; fetchAccessToken has cleared the access token and
\* the refresh token when it sends its request and refreshAccessToken the
\* access token (the refresh token stays), and a failure leaves them cleared
C30_FailedLoginKeepsCredentials ==
    [][\A t \in Tasks :
          /\ SendsLogin(t)
                => CredentialsUnchanged /\ accessToken' = Null /\ refreshToken' = Null
          /\ SendsRefresh(t)
                => /\ CredentialsUnchanged
                   /\ accessToken' = Null
                   /\ refreshToken' = refreshToken
          /\ AuthRequestFails(t)
                => /\ CredentialsUnchanged /\ TokensUnchanged
                   /\ accessToken' = Null
                   /\ task[t].req.url = LoginUrl => refreshToken' = Null
          /\ AuthFailureCaught(t) => CredentialsUnchanged /\ TokensUnchanged]_vars

\* a login with the stored credentials has failed after a refresh had
\* brought a new access token: the tokens are gone, the credentials are not
C30_Witness ==
    \E t \in Tasks :
        /\ Count(task[t].log, <<"refresh", "ok">>) = 1
        /\ Count(task[t].log, <<"relogin", "fail">>) = 1
        /\ accessToken = Null
        /\ refreshToken = Null
        /\ username = "alice"
        /\ password = "pw"

\* ------------------------------------------------------------------------
\* C31
\* ------------------------------------------------------------------------

\* withReauth of task t takes the branch 'No saved username or password'
\* of its second recovery attempt
NoSavedCredentials(t) ==
    /\ task[t].wrapped
    /\ task[t].pc = "resumed"
    /\ task[t].ctx = "op"
    /\ IsUnauthorized(task[t].threw)
    /\ RecoveryStep(task[t].retries) = "login"
    /\ ~(Truthy(username) /\ Truthy(password))
    /\ task'[t] # task[t]

CachesUnchanged == cache' = cache /\ subjectInstances' = subjectInstances

\* task t calls get<X>(id) or fetch<X>(id), and the call sends a request
SendsForOp(t) ==
    /\ task[t].pc = "idle"
    /\ task'[t].pc = "wait"
    /\ task'[t].ctx = "op"

\* the request of the operation of task t fails: fetch() rejects or the
\* response is not 2xx
OpRequestFails(t) ==
    /\ task[t].pc = "wait"
    /\ task[t].ctx = "op"
    /\ task'[t].pc = "resumed"
    /\ task'[t].threw # NoErr

\* the operation of task t resumes with the error of its request
OpFailureResumes(t) ==
    /\ task[t].pc = "resumed"
    /\ task[t].ctx = "op"
    /\ task[t].threw # NoErr
    /\ task'[t] # task[t]

\* C32: a get(id) or fetch(id) whose request fails changes no cache: not
\* when it sends the request, not when the request fails and not when the
\* error leaves the operation; the entry it was called for is then what it
\* was at the call, and the caller gets the error of the request
C32_FailedFetchKeepsCache ==
    [][\A t \in Tasks :
          /\ SendsForOp(t) => CachesUnchanged
          /\ OpRequestFails(t) => CachesUnchanged
          /\ OpFailureResumes(t)
                => /\ CachesUnchanged
                   /\ CacheEntry([cache |-> cache', subjectInstances |-> subjectInstances'],
                                 task[t].op) = task[t].before
                   /\ task'[t].pc = "idle"
                   /\ task'[t].result = Thrown(task[t].threw)]_vars

\* a fetch of an entity that was cached has failed, and the entry is the
\* one of before
C32_Witness ==
    \E t \in Tasks :
        /\ task[t].pc = "idle"
        /\ task[t].op.fn = "fetch"
        /\ task[t].op.kind \in MapKinds
        /\ task[t].result.st = "err"
        /\ task[t].before # Undefined
        /\ cache[task[t].op.kind][task[t].op.id] = task[t].before

\* ------------------------------------------------------------------------
\* C38
\* ------------------------------------------------------------------------

\* the submit command starts on task t
SubmitStarts(t) ==
    /\ calls'[t] # calls[t]
    /\ task'[t].cmd = "submit"

\* C38: whenever no command handler is running the context key
\* 'vscbiro.allowSubmission' is true exactly when an exercise is selected,
\* and a submit command that finds no exercise selected returns without a
\* request
C38_AllowSubmissionIffSelected ==
    [][/\ task'[CommandRunner].pc = "idle"
             => (allowSubmission' <=> selected' # NoId)
       /\ (SubmitStarts(CommandRunner) /\ selected = NoId)
             => /\ task'[CommandRunner].pc = "idle"
                /\ task'[CommandRunner].req = NoReq
                /\ OpCalls(task'[CommandRunner].log) = 0]_vars

\* ------------------------------------------------------------------------
\* C39
\* ------------------------------------------------------------------------

\* isAssignmentLocked has returned to task t
LockedAsked(t) == task[t].cmd = "locked" /\ task[t].result.st = "ok"

\* the values the function compares
StartOf(t) == DateParse(task[t].exercise.startTime)
EndOf(t) == DateParse(task[t].exercise.endTime)
NowOf(t) == task[t].result.val.now
LockedOf(t) == task[t].result.val.locked

\* C39 as stated: the result is 'EARLY' exactly when now < startTime, false
\* exactly when startTime <= now < endTime, and 'LATE' exactly when
\* now >= endTime, the comparisons being those of JavaScript numbers
C39_ThreeResults ==
    \A t \in Tasks :
        LockedAsked(t)
          => /\ LockedOf(t) = "EARLY" <=> Less(NowOf(t), StartOf(t))
             /\ LockedOf(t) = NotLocked
                   <=> /\ StartOf(t) # NaN /\ StartOf(t) <= NowOf(t)
                       /\ Less(NowOf(t), EndOf(t))
             /\ LockedOf(t) = "LATE"
                   <=> EndOf(t) # NaN /\ NowOf(t) >= EndOf(t)

\* C39, amended: with a start and an end that are dates and start <= end
\* the result is as stated. In general it is 'EARLY' exactly when the start
\* is a date and now is before it; otherwise false exactly when the end is
\* a date and now is before it; and otherwise 'LATE': so 'LATE' also when
\* the end is no date, false also when the start is no date, and 'EARLY',
\* not 'LATE', for a now that is before the start and not before the end
C39_ThreeResultsInOrder ==
    \A t \in Tasks :
        LockedAsked(t)
          => /\ LockedOf(t) \in {"EARLY", NotLocked, "LATE"}
             /\ (StartOf(t) # NaN /\ EndOf(t) # NaN /\ StartOf(t) <= EndOf(t))
                   => /\ LockedOf(t) = "EARLY" <=> NowOf(t) < StartOf(t)
                      /\ LockedOf(t) = NotLocked
                            <=> StartOf(t) <= NowOf(t) /\ NowOf(t) < EndOf(t)
                      /\ LockedOf(t) = "LATE" <=> NowOf(t) >= EndOf(t)
             /\ LockedOf(t) = "EARLY"
                   <=> StartOf(t) # NaN /\ NowOf(t) < StartOf(t)
             /\ LockedOf(t) = NotLocked
                   <=> /\ StartOf(t) = NaN \/ NowOf(t) >= StartOf(t)
                       /\ EndOf(t) # NaN /\ NowOf(t) < EndOf(t)
             /\ LockedOf(t) = "LATE"
                   <=> /\ StartOf(t) = NaN \/ NowOf(t) >= StartOf(t)
                       /\ EndOf(t) = NaN \/ NowOf(t) >= EndOf(t)

\* an assignment that ends before it starts, asked in between: 'EARLY'
C39_Witness ==
    \E t \in Tasks :
        /\ LockedAsked(t)
        /\ StartOf(t) # NaN /\ EndOf(t) # NaN
        /\ EndOf(t) <= NowOf(t) /\ NowOf(t) < StartOf(t)
        /\ LockedOf(t) = "EARLY"

\* ------------------------------------------------------------------------
\* C40
\* ------------------------------------------------------------------------

\* C40: one call of the older withReauth sends at most four recovery
\* requests, two refresh-token requests and then two login requests with
\* the stored credentials, and invokes the operation at most five times;
\* when all five invocations have failed with 401 it throws the 401 error
\* of the operation (the one of the fifth invocation)
C40_OlderFourAttempts ==
    \A t \in Tasks :
        task[t].wrapped
          => /\ OpCalls(task[t].log) <= 5
             /\ Len(Recoveries(task[t].log)) <= 4
             /\ \E n \in 0..4 :
                   Recoveries(task[t].log) =
                     SubSeq(<<"refresh", "refresh", "relogin", "relogin">>, 1, n)
             /\ OpOutcomes(task[t].log) = <<"401", "401", "401", "401", "401">>
                   => /\ task[t].pc = "idle"
                      /\ Recoveries(task[t].log) =
                            <<"refresh", "refresh", "relogin", "relogin">>
                      /\ task[t].result = Thrown(ApiError(401, "op", 5))

C40_Witness ==
    \E t \in Tasks :
        /\ task[t].wrapped
        /\ task[t].pc = "idle"
        /\ OpCalls(task[t].log) = 5
        /\ Len(Recoveries(task[t].log)) = 4
        /\ task[t].result = Thrown(ApiError(401, "op", 5))

\* ------------------------------------------------------------------------
\* C35
\* ------------------------------------------------------------------------

\* the calls update() made for the submissions have all settled
AllSettled ==
    /\ panel.pc = "tasks"
    /\ panel.todo = << >>
    /\ panel'.pc # "tasks"

\* C35: when the calls of an update have settled, some of them perhaps with
\* an error, and the update has found a submission that is under
\* evaluation or whose status is not finished, the timer is set if the
\* panel still shows the exercise, and when the timer fires while the panel
\* shows it another update starts; when the update has found no such
\* submission no timer is set
C35_PollingContinues ==
    [][/\ (AllSettled /\ panel.later
             /\ panel.exerciseId = <<panel.exercise.assignedExerciseId>>)
            => panel'.pc = "timer"
       /\ (AllSettled /\ ~panel.later) => panel'.pc = "idle"
       /\ RefreshFires
            => /\ panel'.updates = panel.updates + 1
               /\ panel'.pc \in {"exercise", "tasks"}]_vars

\* C36: the page after the calls of an update have settled

\* C36: when all the calls update() started for the submissions have
\* settled, the page of the panel shows the reports and the files that are
\* in the maps of the client for the exercise of the update
C36_HtmlReflectsCache ==
    [][AllSettled => panel'.html = Page(panel.exercise, cache')]_vars

\* C33: the lock of ExercisePanel.update

\* C33: at most one update() call is between storing its promise in
\* this.lock and calling unlock()
C33_MutualExclusion == Cardinality(Inside(panel)) <= 1

\* C34: the lock of ExercisePanel.update is released

\* the runs that wait for the promise they found in this.lock
Waiting(p) == {j \in DOMAIN p.runs : p.runs[j].pc = "lock"}

\* the step in which the body of run i ends
BodyEnds(i) == i \in Inside(panel) /\ i \notin Inside(panel')

AllRunsEnded == panel.runs # << >> /\ Inside(panel) = {} /\ Waiting(panel) = {}

\* C37: once every update() call has ended, a page that the open panel
\* displays is the page of the exercise whose id is in exerciseId
C37_DisplaysCurrentExercise ==
    (panel.open /\ AllRunsEnded /\ panel.html.t = "page")
      => <<panel.html.exercise>> = panel.exerciseId

====
